---- MODULE Spec2Model ----
(***************************************************************************)
(* FlowTracker: reconciliation of raw per-ticker flow series into          *)
(* net-premium and combined-flow records, as done by                       *)
(* SingleSecurityAnalyzer (single_security.py) and MultiSecurityAnalyzer   *)
(* (multi_security.py), and the run that main_app.py starts on             *)
(* "Start Analysis".                                                       *)
(*                                                                         *)
(* Strings that the code inspects character by character (raw ticker keys, *)
(* target tickers) are sequences of one-character strings, so that         *)
(* upper(), split('_'), startswith(), endswith() and `in` are computed.    *)
(* Date strings are looked up in the tables to_datetime / strftime.        *)
(***************************************************************************)
EXTENDS Integers, Sequences, FiniteSets, TLC

VARIABLES
    api,            \* what the flow-data provider returns for each of the five requests of a run
    pc,             \* "idle" before Start Analysis, "done" after the analyzer returned
    view,           \* "Single Security" | "Multi Securities"   (main_app.py view_type)
    data_source,    \* "Combined Flow" | "Options Flow"
    size,           \* options size of a single-security Options Flow run
    ticker_list,    \* main_app.py:935
    status,         \* the status strings of the fetches of the run
    outcome,        \* which branch of the analyze_* handler was taken
    charts,         \* single-security: one entry per display_*_chart call
    combined_records, \* multi-security: result of calculate_combined_flow_multi
    net_records,    \* multi-security Options Flow: result of calculate_net_premium_multi
    stats_rows,     \* multi-security: rows of display_statistics
    report,         \* multi-security: the tables of the 4-flow HTML report
    last_call,      \* the last external fetch: what happened on the wire, what the caller got
    price_cache,    \* self.price_cache of an analyzer
    values,         \* the value series of one ticker handed to the statistics functions
    window,         \* z_score_window (0 stands for None)
    z_scores,       \* result of calculate_z_scores(values, window)
    activity,       \* a Z-score and the label classify_activity_level gives it
    momentum,       \* an MA ratio and the signals the two analyzers give it
    stats_data,     \* the statistics row display_statistics builds from values
    wire,           \* the requests and sleeps of the fetches of one analysis run, in order
    session_state,  \* st.session_state: the keys that are set, with their values
    now,            \* datetime.now(), in minutes
    stored_hash,    \* st.secrets.get("password_hash", "")
    last_run,       \* the last script run: the interaction that started it and how it ended
    admitted        \* how many analysis runs were admitted at the present clock reading

\* the state of an analysis run
run_vars == <<api, pc, view, data_source, size, ticker_list, status, outcome, charts,
              combined_records, net_records, stats_rows, report>>

\* the state of the fetch layer
fetch_vars == <<last_call, price_cache>>

\* the state of the statistics functions
stat_vars == <<values, window, z_scores, activity, momentum, stats_data>>

\* the state of a browser session
session_vars == <<session_state, now, stored_hash, last_run, admitted>>

vars == <<run_vars, fetch_vars, stat_vars, wire, wire, session_vars>>

-----------------------------------------------------------------------------
(* Bounds of the model *)

\* at most this many data points (key, date) in all five provider responses of a run
MaxPoints == 2

-----------------------------------------------------------------------------
(* Characters and strings *)

\* str.upper() on one character
UpperChar(c) ==
    CASE c = "a" -> "A" [] c = "e" -> "E" [] c = "l" -> "L" [] c = "m" -> "M"
      [] c = "o" -> "O" [] c = "p" -> "P" [] c = "r" -> "R" [] c = "s" -> "S"
      [] c = "t" -> "T" [] OTHER -> c

\* str.upper()
Upper(s) == [i \in DOMAIN s |-> UpperChar(s[i])]

\* '_' in s
HasUnderscore(s) == \E i \in DOMAIN s : s[i] = "_"

\* s.split('_')[-1]: what follows the last underscore (all of s when there is none)
LastSegment(s) ==
    IF HasUnderscore(s)
    THEN LET last == CHOOSE i \in DOMAIN s :
                        s[i] = "_" /\ \A j \in DOMAIN s : s[j] = "_" => j <= i
         IN  SubSeq(s, last + 1, Len(s))
    ELSE s

\* s.startswith(p)
StartsWith(s, p) == Len(p) <= Len(s) /\ SubSeq(s, 1, Len(p)) = p

\* s.endswith(p)
EndsWith(s, p) == Len(p) <= Len(s) /\ SubSeq(s, Len(s) - Len(p) + 1, Len(s)) = p

\* p in s   (substring test)
Contains(s, p) ==
    \E i \in 0..(Len(s) - Len(p)) : SubSeq(s, i + 1, i + Len(p)) = p

\* the raw keys the provider uses, and the tickers a user asks for
K_AAPL     == <<"A", "A", "P", "L">>
K_OTM_AAPL == <<"O", "T", "M", "_", "s", "m", "a", "l", "l", "_", "A", "A", "P", "L">>
K_aapl_sm  == <<"a", "a", "p", "l", "_", "s", "m", "a", "l", "l">>
K_AA       == <<"A", "A">>
K_error    == <<"e", "r", "r", "o", "r">>

\* the keys that carry date -> value dicts
RawKeys == <<K_AAPL, K_OTM_AAPL, K_aapl_sm, K_AA>>

-----------------------------------------------------------------------------
(* Dates *)

DateStrs == {"2024-01-01", "2024-01-02"}

\* pd.to_datetime(date_str): the day the string names (days since 1970-01-01)
to_datetime(date_str) ==
    CASE date_str = "2024-01-01" -> 19723
      [] date_str = "2024-01-02" -> 19724

\* Timestamp.strftime('%Y-%m-%d')
strftime(date_obj) ==
    CASE date_obj = 19723 -> "2024-01-01"
      [] date_obj = 19724 -> "2024-01-02"

-----------------------------------------------------------------------------
(* Raw series: the JSON object of a provider response, in key order.       *)
(* An entry is [key, isdict, items]: items is the date -> value dict when  *)
(* isinstance(date_values, dict), and the empty function otherwise.        *)

EmptyDict == [d \in {} |-> 0]

\* dict.get(date_str, 0)
Get(m, d) == IF d \in DOMAIN m THEN m[d] ELSE 0

\* the dates of a set, as a sequence in ascending date order
RECURSIVE SortedDates(_)
SortedDates(S) ==
    IF S = {} THEN <<>>
    ELSE LET d == CHOOSE x \in S : \A y \in S : to_datetime(x) <= to_datetime(y)
         IN  <<d>> \o SortedDates(S \ {d})

Range(s) == {s[i] : i \in DOMAIN s}

Min(S) == CHOOSE x \in S : \A y \in S : x <= y

\* sum over the entries I of a raw series of the value each has on date d
RECURSIVE SumOver(_, _, _)
SumOver(series, I, d) ==
    IF I = {} THEN 0
    ELSE LET i == CHOOSE x \in I : TRUE
         IN  Get(series[i].items, d) + SumOver(series, I \ {i}, d)

\* for date_str, value in date_values.items():
\*     records[date_str] = records.get(date_str, 0) + value
\* run over the entries I of a raw series
Accumulate(series, I) ==
    [d \in UNION {DOMAIN series[i].items : i \in I} |-> SumOver(series, I, d)]

-----------------------------------------------------------------------------
(* Ticker matching, one operator per form the source uses *)

\* multi_security.py: retail key test of calculate_combined_flow_multi
MultiRetailMatch(ticker_key, target_upper) == Upper(ticker_key) = target_upper

\* single_security.py: retail key test of display_combined_flow_chart
SingleRetailMatch(ticker_key, ticker) ==
    \/ Upper(ticker) = Upper(ticker_key)
    \/ Contains(Upper(ticker_key), Upper(ticker))

\* multi_security.py: options key test of calculate_combined_flow_multi and
\* calculate_net_premium_multi
MultiOptionsMatch(ticker_key, target_upper) ==
    LET base_ticker == IF HasUnderscore(ticker_key)
                       THEN Upper(LastSegment(ticker_key))
                       ELSE Upper(ticker_key)
    IN  \/ base_ticker = target_upper
        \/ Upper(ticker_key) = target_upper
        \/ EndsWith(Upper(ticker_key), <<"_">> \o target_upper)
        \/ StartsWith(Upper(ticker_key), target_upper \o <<"_">>)

\* single_security.py: options key test of display_combined_flow_chart
SingleOptionsMatch(ticker_key, target_upper) ==
    LET base_ticker == IF HasUnderscore(ticker_key) THEN LastSegment(ticker_key)
                       ELSE ticker_key
    IN  Upper(base_ticker) = target_upper

\* The four key tests, tabulated once over the keys the provider uses and the
\* upper-cased tickers a user can ask for.
AllKeys == Range(RawKeys) \cup {K_error}

Targets == {K_AAPL, K_AA}

MultiRetailMatches == [k \in AllKeys, t \in Targets |-> MultiRetailMatch(k, t)]

SingleRetailMatches == [k \in AllKeys, t \in Targets |-> SingleRetailMatch(k, t)]

MultiOptionsMatches == [k \in AllKeys, t \in Targets |-> MultiOptionsMatch(k, t)]

SingleOptionsMatches == [k \in AllKeys, t \in Targets |-> SingleOptionsMatch(k, t)]

-----------------------------------------------------------------------------
(* Reconciliation of one raw series for one target ticker *)

\* multi: retail_records = date_values of the first dict-valued key that matches
MultiRetailRecords(retail_flow, target_upper) ==
    LET I == {i \in DOMAIN retail_flow :
                 MultiRetailMatches[retail_flow[i].key, target_upper] /\ retail_flow[i].isdict}
    IN  IF I = {} THEN EmptyDict ELSE retail_flow[Min(I)].items

\* single: retail_records = date_values of the first dict-valued key that matches
SingleRetailRecords(retail_flow, ticker) ==
    LET I == {i \in DOMAIN retail_flow :
                 SingleRetailMatches[retail_flow[i].key, ticker] /\ retail_flow[i].isdict}
    IN  IF I = {} THEN EmptyDict ELSE retail_flow[Min(I)].items

\* multi: per-date sum over every dict-valued key that matches
MultiOptionsRecords(series, target_upper) ==
    Accumulate(series, {i \in DOMAIN series :
                           series[i].isdict /\ MultiOptionsMatches[series[i].key, target_upper]})

\* single: per-date sum over every dict-valued key that matches
SingleOptionsRecords(series, target_upper) ==
    Accumulate(series, {i \in DOMAIN series :
                           series[i].isdict /\ SingleOptionsMatches[series[i].key, target_upper]})

-----------------------------------------------------------------------------
(* Combined flow *)

\* a faulty variant of combined_flow: the put premium added instead of subtracted
combined_flow_puts_added(retail_records, small_call_records, small_put_records, large_call_records, large_put_records, date_str) ==
    Get(retail_records, date_str)
      + (Get(small_call_records, date_str) + Get(small_put_records, date_str))
      + (Get(large_call_records, date_str) + Get(large_put_records, date_str))

\* retail_val + small_net + large_net for one date
combined_flow(retail_records, small_call_records, small_put_records, large_call_records, large_put_records, date_str) ==
    LET retail_val == Get(retail_records, date_str)
        small_net  == Get(small_call_records, date_str) - Get(small_put_records, date_str)
        large_net  == Get(large_call_records, date_str) - Get(large_put_records, date_str)
    IN  retail_val + small_net + large_net

\* the body of the loop `for target_ticker in ticker_list` of
\* calculate_combined_flow_multi: the records appended for one target.
\* all_dates is a Python set; its iteration order is taken to be ascending
\* (every caller sorts the records by date before use).
CombinedPassMulti(flows, target_ticker) ==
    LET target_upper       == Upper(target_ticker)
        retail_records     == MultiRetailRecords(flows.retail, target_upper)
        small_call_records == MultiOptionsRecords(flows.small_call, target_upper)
        small_put_records  == MultiOptionsRecords(flows.small_put, target_upper)
        large_call_records == MultiOptionsRecords(flows.large_call, target_upper)
        large_put_records  == MultiOptionsRecords(flows.large_put, target_upper)
        all_dates == SortedDates(DOMAIN retail_records
                                 \cup DOMAIN small_call_records \cup DOMAIN small_put_records
                                 \cup DOMAIN large_call_records \cup DOMAIN large_put_records)
    IN  [i \in DOMAIN all_dates |->
            [date   |-> to_datetime(all_dates[i]),
             ticker |-> target_ticker,
             value  |-> combined_flow(retail_records, small_call_records, small_put_records,
                                      large_call_records, large_put_records, all_dates[i])]]

RECURSIVE calculate_combined_flow_multi(_, _)
calculate_combined_flow_multi(flows, tickers) ==
    IF tickers = <<>> THEN <<>>
    ELSE CombinedPassMulti(flows, Head(tickers))
           \o calculate_combined_flow_multi(flows, Tail(tickers))

\* display_combined_flow_chart: the records list of one ticker's chart
display_combined_flow_chart(flows, ticker) ==
    LET retail_records     == SingleRetailRecords(flows.retail, ticker)
        target_upper       == Upper(ticker)
        small_call_records == SingleOptionsRecords(flows.small_call, target_upper)
        small_put_records  == SingleOptionsRecords(flows.small_put, target_upper)
        large_call_records == SingleOptionsRecords(flows.large_call, target_upper)
        large_put_records  == SingleOptionsRecords(flows.large_put, target_upper)
        all_dates == SortedDates(DOMAIN retail_records
                                 \cup DOMAIN small_call_records \cup DOMAIN small_put_records
                                 \cup DOMAIN large_call_records \cup DOMAIN large_put_records)
    IN  [i \in DOMAIN all_dates |->
            [date          |-> to_datetime(all_dates[i]),
             combined_flow |-> combined_flow(retail_records, small_call_records,
                                             small_put_records, large_call_records,
                                             large_put_records, all_dates[i]),
             retail_flow   |-> Get(retail_records, all_dates[i]),
             small_net     |-> Get(small_call_records, all_dates[i])
                                 - Get(small_put_records, all_dates[i]),
             large_net     |-> Get(large_call_records, all_dates[i])
                                 - Get(large_put_records, all_dates[i])]]

\* display_ma_ratio_combined_chart: the combined_records list of one ticker's
\* chart, sorted by date
display_ma_ratio_combined_chart(flows, ticker) ==
    LET retail_records     == SingleRetailRecords(flows.retail, ticker)
        target_upper       == Upper(ticker)
        small_call_records == SingleOptionsRecords(flows.small_call, target_upper)
        small_put_records  == SingleOptionsRecords(flows.small_put, target_upper)
        large_call_records == SingleOptionsRecords(flows.large_call, target_upper)
        large_put_records  == SingleOptionsRecords(flows.large_put, target_upper)
        all_dates == SortedDates(DOMAIN retail_records
                                 \cup DOMAIN small_call_records \cup DOMAIN small_put_records
                                 \cup DOMAIN large_call_records \cup DOMAIN large_put_records)
    IN  [i \in DOMAIN all_dates |->
            [date          |-> to_datetime(all_dates[i]),
             combined_flow |-> combined_flow(retail_records, small_call_records,
                                             small_put_records, large_call_records,
                                             large_put_records, all_dates[i])]]

-----------------------------------------------------------------------------
(* Net premium *)

\* a faulty variant of net_premium: a date missing on the put side is dropped to 0
net_premium_call_needs_put(ticker_call_data, ticker_put_data, date_str) ==
    IF date_str \in DOMAIN ticker_put_data
    THEN Get(ticker_call_data, date_str) - Get(ticker_put_data, date_str)
    ELSE 0

\* call_value - put_value for one date
net_premium(ticker_call_data, ticker_put_data, date_str) ==
    Get(ticker_call_data, date_str) - Get(ticker_put_data, date_str)

\* a faulty variant of NetPassMulti: all_dates taken from the call side alone
NetPassMultiCallDatesOnly(call_data, put_data, target_ticker) ==
    LET target_upper     == Upper(target_ticker)
        ticker_call_data == MultiOptionsRecords(call_data, target_upper)
        ticker_put_data  == MultiOptionsRecords(put_data, target_upper)
        all_dates == SortedDates(DOMAIN ticker_call_data)
    IN  [i \in DOMAIN all_dates |->
            [date       |-> to_datetime(all_dates[i]),
             ticker     |-> target_ticker,
             value      |-> net_premium(ticker_call_data, ticker_put_data, all_dates[i]),
             call_value |-> Get(ticker_call_data, all_dates[i]),
             put_value  |-> Get(ticker_put_data, all_dates[i])]]

\* the body of the loop `for target_ticker in ticker_list` of calculate_net_premium_multi
NetPassMulti(call_data, put_data, target_ticker) ==
    LET target_upper     == Upper(target_ticker)
        ticker_call_data == MultiOptionsRecords(call_data, target_upper)
        ticker_put_data  == MultiOptionsRecords(put_data, target_upper)
        all_dates == SortedDates(DOMAIN ticker_call_data \cup DOMAIN ticker_put_data)
    IN  [i \in DOMAIN all_dates |->
            [date       |-> to_datetime(all_dates[i]),
             ticker     |-> target_ticker,
             value      |-> net_premium(ticker_call_data, ticker_put_data, all_dates[i]),
             call_value |-> Get(ticker_call_data, all_dates[i]),
             put_value  |-> Get(ticker_put_data, all_dates[i])]]

RECURSIVE calculate_net_premium_multi(_, _, _)
calculate_net_premium_multi(call_data, put_data, tickers) ==
    IF tickers = <<>> THEN <<>>
    ELSE NetPassMulti(call_data, put_data, Head(tickers))
           \o calculate_net_premium_multi(call_data, put_data, Tail(tickers))

-----------------------------------------------------------------------------
(* Options responses: small + large merged per raw key *)

\* the keys of a raw series, in order
KeySeq(series) == [i \in DOMAIN series |-> series[i].key]

\* the keys of a, then the keys of b that a does not have
RECURSIVE AppendNew(_, _)
AppendNew(a, b) ==
    IF b = <<>> THEN a
    ELSE AppendNew(IF Head(b) \in Range(a) THEN a ELSE Append(a, Head(b)), Tail(b))

HasKey(series, k) == \E i \in DOMAIN series : series[i].key = k

\* data.get(ticker_key, {})
Lookup(series, k) ==
    IF HasKey(series, k)
    THEN series[CHOOSE i \in DOMAIN series : series[i].key = k]
    ELSE [key |-> k, isdict |-> TRUE, items |-> EmptyDict]

\* SingleSecurityAnalyzer.combine_size_data
combine_size_data(small_data, large_data) ==
    LET all_tickers == AppendNew(KeySeq(small_data), KeySeq(large_data))
        kept == SelectSeq(all_tickers,
                          LAMBDA k : Lookup(small_data, k).isdict \/ Lookup(large_data, k).isdict)
    IN  [i \in DOMAIN kept |->
            LET small_dates == Lookup(small_data, kept[i])
                large_dates == Lookup(large_data, kept[i])
            IN  [key    |-> kept[i],
                 isdict |-> TRUE,
                 items  |-> [d \in DOMAIN small_dates.items \cup DOMAIN large_dates.items |->
                               Get(small_dates.items, d) + Get(large_dates.items, d)]]]

\* MultiSecurityAnalyzer.fetch_options_data_fixed, size == 'combined': the loop
\* `for size_type in ['small', 'large']` over the two responses of one side
MergeSizesMulti(small_response, large_response) ==
    LET dict_small == SelectSeq(small_response, LAMBDA e : e.isdict)
        dict_large == SelectSeq(large_response, LAMBDA e : e.isdict)
        keys == AppendNew(KeySeq(dict_small), KeySeq(dict_large))
    IN  [i \in DOMAIN keys |->
            LET s == Lookup(dict_small, keys[i])
                l == Lookup(dict_large, keys[i])
            IN  [key    |-> keys[i],
                 isdict |-> TRUE,
                 items  |-> [d \in DOMAIN s.items \cup DOMAIN l.items |->
                               Get(s.items, d) + Get(l.items, d)]]]

-----------------------------------------------------------------------------
(* Single-security Options Flow: Call / Put records and their net premium *)

\* the records one raw entry contributes (analyze_options_flow, inner loops)
EntryRecords(entry, data_type) ==
    IF entry.isdict
    THEN LET base_ticker == IF HasUnderscore(entry.key) THEN LastSegment(entry.key)
                            ELSE entry.key
             dates == SortedDates(DOMAIN entry.items)
         IN  [i \in DOMAIN dates |->
                 [date   |-> to_datetime(dates[i]),
                  ticker |-> base_ticker,
                  value  |-> entry.items[dates[i]],
                  type   |-> data_type]]
    ELSE <<>>

RECURSIVE OptionRecords(_, _)
OptionRecords(data_dict, data_type) ==
    IF data_dict = <<>> THEN <<>>
    ELSE EntryRecords(Head(data_dict), data_type) \o OptionRecords(Tail(data_dict), data_type)

\* df[...]['value'].sum() over the rows I of a record list
RECURSIVE SumValues(_, _)
SumValues(df, I) ==
    IF I = {} THEN 0
    ELSE LET i == CHOOSE x \in I : TRUE
         IN  df[i].value + SumValues(df, I \ {i})

\* SingleSecurityAnalyzer.calculate_net_premium
calculate_net_premium(df, ticker) ==
    LET call_data == {i \in DOMAIN df : df[i].ticker = ticker /\ df[i].type = "Call"}
        put_data  == {i \in DOMAIN df : df[i].ticker = ticker /\ df[i].type = "Put"}
        all_dates == SortedDates({strftime(df[i].date) : i \in call_data}
                                 \cup {strftime(df[i].date) : i \in put_data})
    IN  [n \in DOMAIN all_dates |->
            LET date_obj   == to_datetime(all_dates[n])
                call_value == SumValues(df, {i \in call_data : df[i].date = date_obj})
                put_value  == SumValues(df, {i \in put_data : df[i].date = date_obj})
            IN  [date   |-> date_obj,
                 ticker |-> ticker,
                 value  |-> call_value - put_value,
                 type   |-> "Net_Premium"]]

\* ord(c) for the characters of the raw keys
Ord(c) ==
    CASE c = "A" -> 65  [] c = "E" -> 69  [] c = "L" -> 76  [] c = "M" -> 77
      [] c = "O" -> 79  [] c = "P" -> 80  [] c = "R" -> 82  [] c = "S" -> 83
      [] c = "T" -> 84  [] c = "_" -> 95  [] c = "a" -> 97  [] c = "e" -> 101
      [] c = "l" -> 108 [] c = "m" -> 109 [] c = "o" -> 111 [] c = "p" -> 112
      [] c = "r" -> 114 [] c = "s" -> 115 [] c = "t" -> 116

\* Python string order: s < t
RECURSIVE StrLess(_, _)
StrLess(s, t) ==
    IF t = <<>> THEN FALSE
    ELSE IF s = <<>> THEN TRUE
    ELSE IF Head(s) = Head(t) THEN StrLess(Tail(s), Tail(t))
    ELSE Ord(Head(s)) < Ord(Head(t))

\* df['ticker'].unique() of a frame sorted by ticker: the tickers in string order
RECURSIVE SortedTickers(_)
SortedTickers(S) ==
    IF S = {} THEN <<>>
    ELSE LET t == CHOOSE x \in S : \A y \in S \ {x} : StrLess(x, y)
         IN  <<t>> \o SortedTickers(S \ {t})

-----------------------------------------------------------------------------
(* The requests of a fetch, as they go out: every requests.get and every     *)
(* time.sleep of the fetch functions, in program order.  A request returns   *)
(* (or times out, or raises into the except clause around it) before the     *)
(* next statement runs, whatever the answer is.                              *)

\* requests.get(url, params), as the tuple of: "get", the endpoint, the tickers
\* parameter, the type or callput parameter, the size parameter, and the pass of
\* the ticker loop that sent it (0 outside a ticker loop)
requests_get(url, tickers, type, sz, turn) == <<"get", url, tickers, type, sz, turn>>

\* time.sleep(seconds), as the tuple of "sleep" and the tenths of a second
time_sleep(tenths) == <<"sleep", tenths>>

\* the parts of a request
EventKind(e) == e[1]

EventUrl(e) == e[2]

EventTickers(e) == e[3]

EventTurn(e) == e[6]

\* the concatenation of the sequences f[1], ..., f[n]
RECURSIVE Flatten(_)
Flatten(f) ==
    IF f = <<>> THEN <<>> ELSE Head(f) \o Flatten(Tail(f))

\* SingleSecurityAnalyzer.fetch_stock_flow_data: 'combined' asks for the net, the
\* buy and the sell flow of each ticker with a sleep after each request; any other
\* transaction type asks once per ticker
SingleFlowRequests(token, tickers, transaction_type) ==
    IF ~token THEN <<>>
    ELSE IF transaction_type = "combined"
    THEN Flatten([i \in DOMAIN tickers |->
                    << requests_get("tickers", <<tickers[i]>>, "none", "none", i), time_sleep(5),
                       requests_get("tickers", <<tickers[i]>>, "buy", "none", i), time_sleep(5),
                       requests_get("tickers", <<tickers[i]>>, "sell", "none", i), time_sleep(5) >>])
    ELSE Flatten([i \in DOMAIN tickers |->
                    << requests_get("tickers", <<tickers[i]>>, transaction_type, "none", i) >>])

\* SingleSecurityAnalyzer.fetch_combined_options_data
SingleCombinedOptionsRequests(tickers) ==
    << requests_get("option", tickers, "call", "small", 0), time_sleep(10),
       requests_get("option", tickers, "put", "small", 0), time_sleep(10),
       requests_get("option", tickers, "call", "large", 0), time_sleep(10),
       requests_get("option", tickers, "put", "large", 0) >>

\* SingleSecurityAnalyzer.fetch_options_data_fixed
SingleOptionsRequests(token, tickers, sz) ==
    IF ~token THEN <<>>
    ELSE IF sz = "combined" THEN SingleCombinedOptionsRequests(tickers)
    ELSE << requests_get("option", tickers, "call", sz, 0), time_sleep(5),
            requests_get("option", tickers, "put", sz, 0) >>

\* MultiSecurityAnalyzer.fetch_stock_flow_data
MultiFlowRequests(token, tickers, transaction_type) ==
    IF ~token THEN <<>>
    ELSE IF transaction_type = "combined"
    THEN Flatten([i \in DOMAIN tickers |->
                    << requests_get("tickers", <<tickers[i]>>, "none", "none", i), time_sleep(5) >>])
    ELSE <<>>

\* MultiSecurityAnalyzer.fetch_options_data_fixed
MultiOptionsRequests(token, tickers, sz) ==
    IF ~token THEN <<>>
    ELSE IF sz = "combined"
    THEN Flatten([n \in 1..2 |->
                    LET size_type == IF n = 1 THEN "small" ELSE "large"
                    IN  << requests_get("option", tickers, "call", size_type, 0),
                           requests_get("option", tickers, "put", size_type, 0), time_sleep(10) >>])
    ELSE << requests_get("option", tickers, "call", sz, 0), time_sleep(5),
            requests_get("option", tickers, "put", sz, 0) >>

\* MultiSecurityAnalyzer.generate_report_html: the retail, the small and the large
\* fetch once more
ReportRequests(tickers) ==
    MultiFlowRequests(TRUE, tickers, "combined")
      \o MultiOptionsRequests(TRUE, tickers, "small")
      \o MultiOptionsRequests(TRUE, tickers, "large")

-----------------------------------------------------------------------------
(* Fetches.  The provider's answer to each request of a run is api.<series>; *)
(* a request that fails (timeout, non-200, exception) gives {} - the same as *)
(* an empty answer, which api allows for every series.                       *)

\* SingleSecurityAnalyzer.fetch_stock_flow_data(..., 'combined'): combined_data and status
SingleFetchRetail == [data |-> api.retail, status |-> "success"]

\* SingleSecurityAnalyzer.fetch_options_data_fixed
SingleFetchOptions(sz) ==
    IF sz = "combined"
    THEN [call_data |-> combine_size_data(api.small_call, api.large_call),
          put_data  |-> combine_size_data(api.small_put, api.large_put),
          status    |-> "success"]
    ELSE LET call_data == IF sz = "small" THEN api.small_call ELSE api.large_call
             put_data  == IF sz = "small" THEN api.small_put ELSE api.large_put
         IN  IF call_data # <<>> /\ put_data # <<>>
             THEN [call_data |-> call_data, put_data |-> put_data, status |-> "success"]
             ELSE [call_data |-> <<>>, put_data |-> <<>>, status |-> "API failed"]

\* MultiSecurityAnalyzer.fetch_stock_flow_data(..., 'combined')
MultiFetchRetail == [data |-> api.retail, status |-> "success"]

\* MultiSecurityAnalyzer.fetch_options_data_fixed
MultiFetchOptions(sz) ==
    IF sz = "combined"
    THEN [call_data |-> MergeSizesMulti(api.small_call, api.large_call),
          put_data  |-> MergeSizesMulti(api.small_put, api.large_put),
          status    |-> "success"]
    ELSE [call_data |-> IF sz = "small" THEN api.small_call ELSE api.large_call,
          put_data  |-> IF sz = "small" THEN api.small_put ELSE api.large_put,
          status    |-> "success"]

-----------------------------------------------------------------------------
(* Tables of the multi-security view *)

\* the tickers of a record list
TickersOf(df) == {df[i].ticker : i \in DOMAIN df}

\* display_statistics / generate_flow_table_html: one statistics row per ticker of
\* df['ticker'].unique(); df is sorted by ticker, so the rows come in string order
StatRows(df) ==
    LET tickers == SortedTickers(TickersOf(df))
    IN  [n \in DOMAIN tickers |->
            [ticker      |-> tickers[n],
             kind        |-> "stats",
             data_points |-> Cardinality({i \in DOMAIN df : df[i].ticker = tickers[n]})]]

\* a section of the HTML report: left out when its frame is empty
Section(df) == [shown |-> df # <<>>, rows |-> StatRows(df)]

NoReport ==
    [generated |-> FALSE,
     retail |-> Section(<<>>), options_small |-> Section(<<>>),
     options_large |-> Section(<<>>), combined |-> Section(<<>>)]

\* generate_report_html: the retail records, one per (raw key, date)
RECURSIVE RetailReportRecords(_)
RetailReportRecords(retail_flow) ==
    IF retail_flow = <<>> THEN <<>>
    ELSE LET e == Head(retail_flow)
             dates == SortedDates(DOMAIN e.items)
         IN  (IF e.isdict
              THEN [i \in DOMAIN dates |->
                      [date |-> to_datetime(dates[i]), ticker |-> e.key,
                       value |-> e.items[dates[i]]]]
              ELSE <<>>)
             \o RetailReportRecords(Tail(retail_flow))

\* generate_report_html + create_html_report: the four tables.  The report fetches
\* every series again; the provider answers as it did for the analysis.
generate_report_html(tickers) ==
    LET retail_flow == MultiFetchRetail.data
        small == MultiFetchOptions("small")
        large == MultiFetchOptions("large")
        flows == [retail |-> retail_flow,
                  small_call |-> small.call_data, small_put |-> small.put_data,
                  large_call |-> large.call_data, large_put |-> large.put_data]
    IN  [generated     |-> TRUE,
         retail        |-> Section(RetailReportRecords(retail_flow)),
         options_small |-> Section(calculate_net_premium_multi(small.call_data,
                                                                small.put_data, tickers)),
         options_large |-> Section(calculate_net_premium_multi(large.call_data,
                                                                large.put_data, tickers)),
         combined      |-> Section(calculate_combined_flow_multi(flows, tickers))]

-----------------------------------------------------------------------------
(* The provider's data of one run *)

Series == {"retail", "small_call", "small_put", "large_call", "large_put"}

\* a slot <<series, key, date>>: the key has a value on the date in that response
\* (the plain ticker key AAPL on either day, the other keys on the first day);
\* a slot <<series, 0, "error">>: the response carries "error": <message>, a value
\* that is no dict
Slots ==
    {x \in Series \X (DOMAIN RawKeys) \X DateStrs : x[2] = 1 \/ x[3] = "2024-01-01"}
    \cup (Series \X {0} \X {"error"})

\* the value the provider reports for a series, key and date
Amount(s, k, d) ==
    LET base == CASE s = "retail" -> 100 [] s = "small_call" -> 30 [] s = "small_put" -> 20
                  [] s = "large_call" -> 50 [] s = "large_put" -> 40
        v == base + 3 * (k - 1) + (IF d = "2024-01-02" THEN 1 ELSE 0)
    IN  IF s = "retail" /\ d = "2024-01-02" THEN 0 - v ELSE v

\* the subsets of S with at most n elements
RECURSIVE SubsetsUpTo(_, _)
SubsetsUpTo(S, n) ==
    IF n = 0 THEN {{}}
    ELSE LET prev == SubsetsUpTo(S, n - 1)
         IN  prev \cup {p \cup {x} : p \in prev, x \in S}

RECURSIVE SortedInts(_)
SortedInts(S) == IF S = {} THEN <<>> ELSE <<Min(S)>> \o SortedInts(S \ {Min(S)})

Reverse(s) == [i \in DOMAIN s |-> s[Len(s) + 1 - i]]

\* the response for series s that holds the slots P: the "error" entry first, then
\* the keys in RawKeys order
BuildSeries(P, s) ==
    LET ks == SortedInts({k \in DOMAIN RawKeys : \E d \in DateStrs : <<s, k, d>> \in P})
    IN  (IF <<s, 0, "error">> \in P
         THEN <<[key |-> K_error, isdict |-> FALSE, items |-> EmptyDict]>>
         ELSE <<>>)
        \o [i \in DOMAIN ks |->
              [key    |-> RawKeys[ks[i]],
               isdict |-> TRUE,
               items  |-> [d \in {d \in DateStrs : <<s, ks[i], d>> \in P} |->
                             Amount(s, ks[i], d)]]]

\* retail keys come in either order (the retail reconciliation takes the first match)
BuildApi(P, rev) ==
    [retail     |-> IF rev THEN Reverse(BuildSeries(P, "retail")) ELSE BuildSeries(P, "retail"),
     small_call |-> BuildSeries(P, "small_call"),
     small_put  |-> BuildSeries(P, "small_put"),
     large_call |-> BuildSeries(P, "large_call"),
     large_put  |-> BuildSeries(P, "large_put")]

Dict1(d, v) == [x \in {d} |-> v]

\* the end-to-end scenario of the specification, for ticker AAPL
ScenarioApi ==
    [retail     |-> <<[key |-> K_AAPL, isdict |-> TRUE,
                       items |-> [d \in DateStrs |-> IF d = "2024-01-01" THEN 100 ELSE 0 - 50]]>>,
     small_call |-> <<[key |-> K_AAPL, isdict |-> TRUE, items |-> Dict1("2024-01-02", 30)]>>,
     small_put  |-> <<>>,
     large_call |-> <<>>,
     large_put  |-> <<[key |-> K_AAPL, isdict |-> TRUE, items |-> Dict1("2024-01-01", 20)]>>]

\* a day on which every options request has AAPL data
OptionsDay == {<<s, 1, "2024-01-01">> : s \in Series \ {"retail"}}

\* the provider's data: nothing or OptionsDay, and up to MaxPoints further slots
ApiInputs ==
    {BuildApi(P \cup B, rev) :
        P \in SubsetsUpTo(Slots, MaxPoints), B \in {{}, OptionsDay}, rev \in BOOLEAN}
    \cup {ScenarioApi}

-----------------------------------------------------------------------------
(* The ticker box of main_app.py *)

\* what the user typed, split at the commas
TickerInputs ==
    { <<<<"a", "a", "p", "l">>>>,
      << K_AAPL, <<" ", "A", "A">>, <<" ">>, <<" ", "a", "a", "p", "l">> >> }

\* str.strip() for blanks
RECURSIVE Strip(_)
Strip(t) ==
    IF t = <<>> THEN t
    ELSE IF Head(t) = " " THEN Strip(Tail(t))
    ELSE IF t[Len(t)] = " " THEN Strip(SubSeq(t, 1, Len(t) - 1))
    ELSE t

\* ticker_list = [t.strip().upper() for t in tickers_input.split(',') if t.strip()]
ParseTickers(tokens) ==
    LET kept == SelectSeq(tokens, LAMBDA t : Strip(t) # <<>>)
    IN  [i \in DOMAIN kept |-> Upper(Strip(kept[i]))]

-----------------------------------------------------------------------------
(* Numbers.  A float is [kind, sgn, p, q]: kind "num" stands for the real   *)
(* sgn * sqrt(p / q) with p >= 0 and q > 0 (so that a standard deviation   *)
(* and a quotient by it are exact); kind "nan" is NaN and kind "inf" is    *)
(* sgn * infinity.                                                          *)

NaN == [kind |-> "nan", sgn |-> 0, p |-> 0, q |-> 1]

Inf(sg) == [kind |-> "inf", sgn |-> sg, p |-> 0, q |-> 1]

Sign(n) == IF n > 0 THEN 1 ELSE IF n < 0 THEN 0 - 1 ELSE 0

\* the float 0
Zero == [kind |-> "num", sgn |-> 0, p |-> 0, q |-> 1]

\* the float 1
One == [kind |-> "num", sgn |-> 1, p |-> 1, q |-> 1]

RECURSIVE GCD(_, _)
GCD(a, b) == IF b = 0 THEN a ELSE GCD(b, a % b)

\* the float sg * sqrt(a / b) with a / b in lowest terms, a >= 0 and b > 0
Root(sg, a, b) ==
    IF a = 0 \/ sg = 0 THEN Zero
    ELSE [kind |-> "num", sgn |-> sg, p |-> a \div GCD(a, b), q |-> b \div GCD(a, b)]

\* |n|
AbsInt(n) == IF n < 0 THEN 0 - n ELSE n

\* the quotient a / b of two integers, b # 0
Rat(a, b) ==
    LET g == GCD(AbsInt(a), AbsInt(b))
    IN  Root(Sign(a) * Sign(b), (a \div g) * (a \div g), (b \div g) * (b \div g))

IsNaN(x) == x.kind = "nan"

IsNum(x) == x.kind = "num"

\* x == 0
IsZero(x) == x.kind = "num" /\ x.sgn = 0

\* x == y for two floats (NaN equals nothing)
EqNum(x, y) ==
    \/ x.kind = "num" /\ y.kind = "num" /\ x.sgn = y.sgn /\ x.p = y.p /\ x.q = y.q
    \/ x.kind = "inf" /\ y.kind = "inf" /\ x.sgn = y.sgn

\* x < a / b for a float x and integers a, b with b > 0 (False when x is NaN)
Lt(x, a, b) ==
    CASE x.kind = "nan" -> FALSE
      [] x.kind = "inf" -> x.sgn < 0
      [] x.kind = "num" /\ x.sgn < 0 -> a >= 0 \/ x.p * b * b > a * a * x.q
      [] x.kind = "num" /\ x.sgn = 0 -> a > 0
      [] x.kind = "num" /\ x.sgn > 0 -> a > 0 /\ x.p * b * b < a * a * x.q

\* x >= a / b
Ge(x, a, b) == x.kind # "nan" /\ ~Lt(x, a, b)

\* x > a / b
Gt(x, a, b) == Ge(x, a, b) /\ ~EqNum(x, Rat(a, b))

\* x / y as numpy divides floats
Div(x, y) ==
    CASE x.kind = "nan" \/ y.kind = "nan" -> NaN
      [] x.kind = "inf" /\ y.kind = "inf" -> NaN
      [] x.kind = "inf" -> Inf(IF y.sgn < 0 THEN 0 - x.sgn ELSE x.sgn)
      [] y.kind = "inf" -> Zero
      [] IsZero(y) -> IF IsZero(x) THEN NaN ELSE Inf(x.sgn)
      [] OTHER -> IF IsZero(x) THEN Zero
                  ELSE LET g == GCD(x.p, y.p)
                           h == GCD(x.q, y.q)
                       IN  Root(x.sgn * y.sgn, (x.p \div g) * (y.q \div h),
                                (x.q \div h) * (y.p \div g))

\* abs(x)
Abs(x) == [x EXCEPT !.sgn = IF x.sgn < 0 THEN 1 ELSE x.sgn]

\* x * 100
Times100(x) == IF x.kind = "num" THEN Root(x.sgn, x.p * 10000, x.q) ELSE x

\* Series.fillna(v) on one element
fillna(x, v) == IF IsNaN(x) THEN v ELSE x

\* Series.replace(0, np.nan) on one element
replace_zero_by_nan(x) == IF IsZero(x) THEN NaN ELSE x

-----------------------------------------------------------------------------
(* Statistics of a value series (a sequence of integers) *)

RECURSIVE Sum(_)
Sum(xs) == IF xs = <<>> THEN 0 ELSE Head(xs) + Sum(Tail(xs))

SumSq(xs) == Sum([i \in DOMAIN xs |-> xs[i] * xs[i]])

\* Series.mean()
Mean(xs) == IF xs = <<>> THEN NaN ELSE Rat(Sum(xs), Len(xs))

\* Series.std(): the sample standard deviation (ddof = 1), NaN for fewer than 2 values
Std(xs) ==
    LET n == Len(xs)
        ss == n * SumSq(xs) - Sum(xs) * Sum(xs)
    IN  IF n <= 1 THEN NaN
        ELSE IF ss = 0 THEN Zero
        ELSE Root(1, ss, n * (n - 1))

\* xs[i] - Mean(xs')
MinusMean(x, xs) == Rat(Len(xs) * x - Sum(xs), Len(xs))

\* the values a trailing window of w periods (min_periods = 1) holds at index i
Rolling(xs, i, w) == SubSeq(xs, IF i - w + 1 > 1 THEN i - w + 1 ELSE 1, i)

\* a faulty variant of calculate_z_scores: the zero-deviation test of the global
\* branch left out
calculate_z_scores_unguarded(data_series, w) ==
    IF Len(data_series) <= 1
    THEN [i \in DOMAIN data_series |-> Zero]
    ELSE IF w # 0 /\ Len(data_series) >= w
    THEN [i \in DOMAIN data_series |->
            fillna(Div(MinusMean(data_series[i], Rolling(data_series, i, w)),
                       Std(Rolling(data_series, i, w))), Zero)]
    ELSE [i \in DOMAIN data_series |->
            Div(MinusMean(data_series[i], data_series), Std(data_series))]

\* a faulty variant of calculate_z_scores: a series of at most one point is dropped
calculate_z_scores_short_dropped(data_series, w) ==
    IF Len(data_series) <= 1
    THEN <<>>
    ELSE IF w # 0 /\ Len(data_series) >= w
    THEN [i \in DOMAIN data_series |->
            fillna(Div(MinusMean(data_series[i], Rolling(data_series, i, w)),
                       Std(Rolling(data_series, i, w))), Zero)]
    ELSE IF IsZero(Std(data_series))
    THEN [i \in DOMAIN data_series |-> Zero]
    ELSE [i \in DOMAIN data_series |->
            Div(MinusMean(data_series[i], data_series), Std(data_series))]

\* a faulty variant of calculate_z_scores: a series exactly as long as the window
\* sent to the global branch
calculate_z_scores_window_strict(data_series, w) ==
    IF Len(data_series) <= 1
    THEN [i \in DOMAIN data_series |-> Zero]
    ELSE IF w # 0 /\ Len(data_series) > w
    THEN [i \in DOMAIN data_series |->
            fillna(Div(MinusMean(data_series[i], Rolling(data_series, i, w)),
                       Std(Rolling(data_series, i, w))), Zero)]
    ELSE IF IsZero(Std(data_series))
    THEN [i \in DOMAIN data_series |-> Zero]
    ELSE [i \in DOMAIN data_series |->
            Div(MinusMean(data_series[i], data_series), Std(data_series))]

\* calculate_z_scores(data_series, window), the same in both analyzers
calculate_z_scores(data_series, w) ==
    IF Len(data_series) <= 1
    THEN [i \in DOMAIN data_series |-> Zero]
    ELSE IF w # 0 /\ Len(data_series) >= w
    THEN [i \in DOMAIN data_series |->
            LET rolling_mean_gap == MinusMean(data_series[i], Rolling(data_series, i, w))
                rolling_std      == Std(Rolling(data_series, i, w))
            IN  fillna(Div(rolling_mean_gap, rolling_std), Zero)]
    ELSE LET std_val == Std(data_series)
         IN  IF IsZero(std_val)
             THEN [i \in DOMAIN data_series |-> Zero]
             ELSE [i \in DOMAIN data_series |->
                     Div(MinusMean(data_series[i], data_series), std_val)]

-----------------------------------------------------------------------------
(* The Z-Score Comparison of the single-security analyzer *)

\* the retail records of create_z_score_comparison_chart: the first key equal to
\* the ticker ends the loop, dict-valued or not
ComparisonRetailRecords(combined_data, ticker) ==
    LET I == {i \in DOMAIN combined_data : Upper(combined_data[i].key) = Upper(ticker)}
    IN  IF I = {} \/ ~combined_data[Min(I)].isdict THEN EmptyDict
        ELSE combined_data[Min(I)].items

\* the dates one visit of ticker_key collects from the two sides
ComparisonDates(call_data, put_data, ticker_key) ==
    (IF HasKey(call_data, ticker_key) /\ Lookup(call_data, ticker_key).isdict
     THEN DOMAIN Lookup(call_data, ticker_key).items ELSE {})
    \cup (IF HasKey(put_data, ticker_key) /\ Lookup(put_data, ticker_key).isdict
          THEN DOMAIN Lookup(put_data, ticker_key).items ELSE {})

\* net_premium = call_val - put_val of one visit of ticker_key on one of its dates
ComparisonNet(call_data, put_data, ticker_key, date_str) ==
    IF date_str \in ComparisonDates(call_data, put_data, ticker_key)
    THEN Get(Lookup(call_data, ticker_key).items, date_str)
           - Get(Lookup(put_data, ticker_key).items, date_str)
    ELSE 0

\* the keys the loop over list(call_data.keys()) + list(put_data.keys()) handles:
\* a matching key of both sides is visited twice
ComparisonVisits(call_data, put_data, ticker) ==
    SelectSeq(KeySeq(call_data) \o KeySeq(put_data),
              LAMBDA k : Contains(Upper(k), Upper(ticker)))

\* groupby('date')['value'].sum() of the options records on one date
RECURSIVE ComparisonOptionsValue(_, _, _, _)
ComparisonOptionsValue(call_data, put_data, visits, date_str) ==
    IF visits = <<>> THEN 0
    ELSE ComparisonNet(call_data, put_data, Head(visits), date_str)
           + ComparisonOptionsValue(call_data, put_data, Tail(visits), date_str)

\* .get(date_str, 0) is called on a value that is not a dict
ComparisonRaises(call_data, put_data, visits) ==
    \E n \in DOMAIN visits :
        /\ ComparisonDates(call_data, put_data, visits[n]) # {}
        /\ \/ ~Lookup(call_data, visits[n]).isdict
           \/ ~Lookup(put_data, visits[n]).isdict

\* SingleSecurityAnalyzer.create_z_score_comparison_chart: merged_df, or no chart
create_z_score_comparison_chart(retail_data, options_data, ticker, z_score_window) ==
    LET retail_records == ComparisonRetailRecords(retail_data, ticker)
        visits         == ComparisonVisits(options_data.call_data, options_data.put_data, ticker)
        option_dates   == UNION {ComparisonDates(options_data.call_data, options_data.put_data,
                                                 visits[n]) : n \in DOMAIN visits}
        dates          == SortedDates(DOMAIN retail_records \cup option_dates)
        retail_value   == [i \in DOMAIN dates |-> Get(retail_records, dates[i])]
        options_value  == [i \in DOMAIN dates |->
                             ComparisonOptionsValue(options_data.call_data, options_data.put_data,
                                                    visits, dates[i])]
        combined_value == [i \in DOMAIN dates |-> retail_value[i] + options_value[i]]
        combined_z     == calculate_z_scores(combined_value, z_score_window)
    IN  IF ComparisonRaises(options_data.call_data, options_data.put_data, visits)
           \/ retail_records = EmptyDict \/ option_dates = {}
        THEN [created |-> FALSE, merged_df |-> <<>>]
        ELSE [created |-> TRUE,
              merged_df |-> [i \in DOMAIN dates |->
                               [date             |-> to_datetime(dates[i]),
                                retail_value     |-> retail_value[i],
                                options_value    |-> options_value[i],
                                combined_value   |-> combined_value[i],
                                combined_z_score |-> combined_z[i]]]]

-----------------------------------------------------------------------------
(* The state machine: one analysis run *)

NoStatus == [f \in {} |-> ""]

\* no analysis started
RunIdle ==
    /\ pc = "idle"
    /\ view = "none"
    /\ data_source = "none"
    /\ size = "none"
    /\ ticker_list = <<>>
    /\ status = NoStatus
    /\ outcome = "none"
    /\ charts = <<>>
    /\ combined_records = <<>>
    /\ net_records = <<>>
    /\ stats_rows = <<>>
    /\ report = NoReport

\* no fetch made, the price cache of a fresh analyzer (self.price_cache = {})
FetchIdle ==
    /\ last_call = [op |-> "none", raised |-> FALSE]
    /\ price_cache = EmptyDict

\* no statistics computed
StatIdle ==
    /\ z_scores = [returned |-> FALSE, series |-> <<>>]
    /\ activity = [z_score |-> NaN, level |-> "none"]
    /\ momentum = [ratio |-> NaN, single |-> "none", multi |-> "none", html |-> "none"]
    /\ stats_data = <<>>

\* no session started
SessionIdle ==
    /\ session_state = EmptyDict
    /\ now = 0
    /\ stored_hash = ""
    /\ last_run = [event |-> "none", screen |-> "none", outcome |-> "none"]
    /\ admitted = 0

Init ==
    /\ wire = <<>>
    /\ SessionIdle
    /\ api \in ApiInputs
    /\ RunIdle
    /\ FetchIdle
    /\ values = <<>>
    /\ window = 0
    /\ StatIdle

\* SingleSecurityAnalyzer.analyze_combined_flow
AnalyzeCombinedSingle(tokens) ==
    LET tickers == ParseTickers(tokens)
        retail  == SingleFetchRetail
        small   == SingleFetchOptions("small")
        large   == SingleFetchOptions("large")
        ok      == retail.status = "success" /\ small.status = "success"
                   /\ large.status = "success"
        flows   == [retail |-> retail.data,
                    small_call |-> small.call_data, small_put |-> small.put_data,
                    large_call |-> large.call_data, large_put |-> large.put_data]
    IN  /\ pc = "idle"
        /\ pc' = "done"
        /\ view' = "Single Security"
        /\ data_source' = "Combined Flow"
        /\ size' = "none"
        /\ ticker_list' = tickers
        /\ status' = [f \in {"retail", "small", "large"} |->
                        CASE f = "retail" -> retail.status
                          [] f = "small"  -> small.status
                          [] f = "large"  -> large.status]
        /\ outcome' = IF ok THEN "success" ELSE "error"
        /\ charts' = IF ok
                     THEN [i \in DOMAIN tickers |->
                             LET records == display_combined_flow_chart(flows, tickers[i])
                             IN  [ticker  |-> tickers[i],
                                  records |-> records,
                                  no_data |-> records = <<>>]]
                     ELSE <<>>
        /\ UNCHANGED <<api, combined_records, net_records, stats_rows, report>>
        /\ UNCHANGED <<fetch_vars, stat_vars, session_vars>>
        /\ wire' = SingleFlowRequests(TRUE, tickers, "combined")
                    \o SingleOptionsRequests(TRUE, tickers, "small")
                    \o SingleOptionsRequests(TRUE, tickers, "large")

\* SingleSecurityAnalyzer.analyze_z_score_comparison, with the Z-score window of
\* the selector's first entry
AnalyzeZScoreComparisonSingle(tokens) ==
    LET tickers == ParseTickers(tokens)
        retail  == SingleFetchRetail
        options == SingleFetchOptions("combined")
        ok      == retail.status = "success" /\ options.status = "success"
    IN  /\ pc = "idle"
        /\ pc' = "done"
        /\ view' = "Single Security"
        /\ data_source' = "Z-Score Comparison"
        /\ size' = "none"
        /\ ticker_list' = tickers
        /\ status' = [f \in {"retail", "options"} |->
                        IF f = "retail" THEN retail.status ELSE options.status]
        /\ outcome' = IF ok THEN "success" ELSE "error"
        /\ charts' = IF ok
                     THEN [i \in DOMAIN tickers |->
                             LET chart == create_z_score_comparison_chart(
                                              retail.data, options, tickers[i], 21)
                             IN  [ticker  |-> tickers[i],
                                  records |-> chart.merged_df,
                                  no_data |-> ~chart.created]]
                     ELSE <<>>
        /\ UNCHANGED <<api, combined_records, net_records, stats_rows, report>>
        /\ UNCHANGED <<fetch_vars, stat_vars, session_vars>>
        /\ wire' = SingleFlowRequests(TRUE, tickers, "combined")
                    \o SingleOptionsRequests(TRUE, tickers, "combined")

\* the rows of a record list in date order, rows of one date in list order
RECURSIVE ByDates(_, _)
ByDates(recs, dates) ==
    IF dates = <<>> THEN <<>>
    ELSE SelectSeq(recs, LAMBDA r : r.date = Head(dates)) \o ByDates(recs, Tail(dates))

SortByDate(recs) == ByDates(recs, SortedInts({recs[i].date : i \in DOMAIN recs}))

\* SingleSecurityAnalyzer.analyze_options_flow
AnalyzeOptionsSingle(tokens, sz) ==
    LET tickers == ParseTickers(tokens)
        fetched == SingleFetchOptions(sz)
        ok      == fetched.status = "success"
        records == OptionRecords(fetched.call_data, "Call")
                     \o OptionRecords(fetched.put_data, "Put")
        shown   == SortedTickers(TickersOf(records))
    IN  /\ pc = "idle"
        /\ pc' = "done"
        /\ view' = "Single Security"
        /\ data_source' = "Options Flow"
        /\ size' = sz
        /\ ticker_list' = tickers
        /\ status' = [f \in {"options"} |-> fetched.status]
        /\ outcome' = IF ~ok THEN "error" ELSE IF records = <<>> THEN "warning" ELSE "success"
        /\ charts' = IF ok
                     THEN [i \in DOMAIN shown |->
                             [ticker |-> shown[i],
                              call   |-> SortByDate(SelectSeq(records,
                                            LAMBDA r : r.ticker = shown[i] /\ r.type = "Call")),
                              put    |-> SortByDate(SelectSeq(records,
                                            LAMBDA r : r.ticker = shown[i] /\ r.type = "Put")),
                              net    |-> calculate_net_premium(records, shown[i])]]
                     ELSE <<>>
        /\ UNCHANGED <<api, combined_records, net_records, stats_rows, report>>
        /\ UNCHANGED <<fetch_vars, stat_vars, session_vars>>
        /\ wire' = SingleOptionsRequests(TRUE, tickers, sz)

\* MultiSecurityAnalyzer.analyze_combined_comparison
AnalyzeCombinedMulti(tokens) ==
    LET tickers == ParseTickers(tokens)
        retail  == MultiFetchRetail
        small   == MultiFetchOptions("small")
        large   == MultiFetchOptions("large")
        ok      == retail.status = "success" /\ small.status = "success"
                   /\ large.status = "success"
        flows   == [retail |-> retail.data,
                    small_call |-> small.call_data, small_put |-> small.put_data,
                    large_call |-> large.call_data, large_put |-> large.put_data]
        records == IF ok THEN calculate_combined_flow_multi(flows, tickers) ELSE <<>>
    IN  /\ pc = "idle"
        /\ pc' = "done"
        /\ view' = "Multi Securities"
        /\ data_source' = "Combined Flow"
        /\ size' = "none"
        /\ ticker_list' = tickers
        /\ status' = [f \in {"retail", "small", "large"} |->
                        CASE f = "retail" -> retail.status
                          [] f = "small"  -> small.status
                          [] f = "large"  -> large.status]
        /\ outcome' = IF ~ok THEN "error" ELSE IF records = <<>> THEN "warning" ELSE "success"
        /\ combined_records' = records
        /\ stats_rows' = StatRows(records)
        /\ report' = IF records # <<>> THEN generate_report_html(tickers) ELSE NoReport
        /\ UNCHANGED <<api, charts, net_records>>
        /\ UNCHANGED <<fetch_vars, stat_vars, session_vars>>
        /\ wire' = MultiFlowRequests(TRUE, tickers, "combined")
                    \o MultiOptionsRequests(TRUE, tickers, "small")
                    \o MultiOptionsRequests(TRUE, tickers, "large")
                    \o (IF records # <<>> THEN ReportRequests(tickers) ELSE <<>>)

\* MultiSecurityAnalyzer.analyze_options_comparison
AnalyzeOptionsMulti(tokens) ==
    LET tickers == ParseTickers(tokens)
        fetched == MultiFetchOptions("combined")
        ok      == fetched.status = "success"
        records == IF ok
                   THEN calculate_net_premium_multi(fetched.call_data, fetched.put_data, tickers)
                   ELSE <<>>
    IN  /\ pc = "idle"
        /\ pc' = "done"
        /\ view' = "Multi Securities"
        /\ data_source' = "Options Flow"
        /\ size' = "combined"
        /\ ticker_list' = tickers
        /\ status' = [f \in {"options"} |-> fetched.status]
        /\ outcome' = IF ~ok THEN "error" ELSE IF records = <<>> THEN "warning" ELSE "success"
        /\ net_records' = records
        /\ stats_rows' = StatRows(records)
        /\ report' = IF records # <<>> THEN generate_report_html(tickers) ELSE NoReport
        /\ UNCHANGED <<api, charts, combined_records>>
        /\ UNCHANGED <<fetch_vars, stat_vars, session_vars>>
        /\ wire' = MultiOptionsRequests(TRUE, tickers, "combined")
                    \o (IF records # <<>> THEN ReportRequests(tickers) ELSE <<>>)

\* the option sizes of the single-security Options Flow form
Sizes == {"small", "large", "combined"}

Next ==
    \/ \E tokens \in TickerInputs : AnalyzeCombinedSingle(tokens)
    \/ \E tokens \in TickerInputs, sz \in Sizes : AnalyzeOptionsSingle(tokens, sz)
    \/ \E tokens \in TickerInputs : AnalyzeZScoreComparisonSingle(tokens)
    \/ \E tokens \in TickerInputs : AnalyzeCombinedMulti(tokens)
    \/ \E tokens \in TickerInputs : AnalyzeOptionsMulti(tokens)

Spec == Init /\ [][Next]_vars

-----------------------------------------------------------------------------
(* Bounds of the statistics model *)

\* the longest value series handed to a statistics function
MaxLen == 6

\* Z-scores and MA ratios are classified on the grid k/10, -GridMax <= k <= GridMax
GridMax == 30

-----------------------------------------------------------------------------
(* Classification of a Z-score and of an MA ratio *)

\* a faulty variant of classify_activity_level: -1.5 itself counted as Extreme Light
classify_activity_level_low_edge_moved(z_score) ==
    IF Lt(z_score, 0 - 3, 2) \/ EqNum(z_score, Rat(0 - 3, 2)) THEN "Extreme Light"
    ELSE IF Ge(z_score, 0 - 3, 2) /\ Lt(z_score, 0 - 1, 2) THEN "Light"
    ELSE IF Ge(z_score, 0 - 1, 2) /\ Lt(z_score, 1, 2) THEN "Neutral"
    ELSE IF Ge(z_score, 1, 2) /\ Lt(z_score, 3, 2) THEN "Elevated"
    ELSE "Crowded"

\* classify_activity_level(z_score), the same in both analyzers (the level, without
\* its emoji)
classify_activity_level(z_score) ==
    IF Lt(z_score, 0 - 3, 2) THEN "Extreme Light"
    ELSE IF Ge(z_score, 0 - 3, 2) /\ Lt(z_score, 0 - 1, 2) THEN "Light"
    ELSE IF Ge(z_score, 0 - 1, 2) /\ Lt(z_score, 1, 2) THEN "Neutral"
    ELSE IF Ge(z_score, 1, 2) /\ Lt(z_score, 3, 2) THEN "Elevated"
    ELSE "Crowded"

\* a faulty variant of ma_band: a ratio of exactly 1.5 taken as strong
ma_band_strong_at_edge(latest_ratio) ==
    IF Ge(latest_ratio, 3, 2) THEN "strong_up"
    ELSE IF Ge(latest_ratio, 1, 1) THEN "up"
    ELSE IF Ge(latest_ratio, 1, 2) THEN "down"
    ELSE "strong_down"

\* a faulty variant of ma_band: ratios of exactly 1.0 and 0.5 fall one band lower
ma_band_edges_excluded(latest_ratio) ==
    IF Gt(latest_ratio, 3, 2) THEN "strong_up"
    ELSE IF Gt(latest_ratio, 1, 1) THEN "up"
    ELSE IF Gt(latest_ratio, 1, 2) THEN "down"
    ELSE "strong_down"

\* the if / elif chain on the latest MA ratio, written three times in the source
\* with the same comparisons
ma_band(latest_ratio) ==
    IF Gt(latest_ratio, 3, 2) THEN "strong_up"
    ELSE IF Ge(latest_ratio, 1, 1) THEN "up"
    ELSE IF Ge(latest_ratio, 1, 2) THEN "down"
    ELSE "strong_down"

\* the signal of display_ma_ratio_metrics (single security)
display_ma_ratio_metrics_signal ==
    [strong_up |-> "Strong Uptrend", up |-> "Uptrend",
     down |-> "Downtrend", strong_down |-> "Strong Downtrend"]

\* the ma_signal of display_statistics (multi security)
display_statistics_ma_signal ==
    [strong_up |-> "Strong Up", up |-> "Uptrend",
     down |-> "Downtrend", strong_down |-> "Strong Down"]

\* the ma_signal of generate_flow_table_html (multi security), without its emoji
generate_flow_table_html_ma_signal ==
    [strong_up |-> "Strong Up", up |-> "Uptrend",
     down |-> "Downtrend", strong_down |-> "Strong Down"]

\* the Z-scores and ratios offered to the classifiers
Grid == (0 - GridMax) .. GridMax

\* classify_activity_level applied to the Z-score k / 10
ClassifyActivity ==
    /\ \E k \in Grid :
         activity' = [z_score |-> Rat(k, 10), level |-> classify_activity_level(Rat(k, 10))]
    /\ UNCHANGED <<run_vars, fetch_vars, values, window, z_scores, momentum, stats_data, wire, session_vars>>

\* the three signal chains applied to the latest MA ratio k / 10
ClassifyMomentum ==
    /\ \E k \in Grid :
         momentum' = [ratio  |-> Rat(k, 10),
                      single |-> display_ma_ratio_metrics_signal[ma_band(Rat(k, 10))],
                      multi  |-> display_statistics_ma_signal[ma_band(Rat(k, 10))],
                      html   |-> generate_flow_table_html_ma_signal[ma_band(Rat(k, 10))]]
    /\ UNCHANGED <<run_vars, fetch_vars, values, window, z_scores, activity, stats_data, wire, session_vars>>

\* provider data of a session in which no analysis is run
NoApi == BuildApi({}, FALSE)

InitClassify ==
    /\ api = NoApi /\ RunIdle /\ FetchIdle /\ values = <<>> /\ window = 0 /\ StatIdle
    /\ wire = <<>> /\ SessionIdle

NextClassify == ClassifyActivity \/ ClassifyMomentum

SpecClassify == InitClassify /\ [][NextClassify]_vars

-----------------------------------------------------------------------------
(* The statistics of one ticker *)

\* the values of a flow series
FlowValues == {0 - 3, 0, 3}

\* the Z-score window: None (0), windows a short series reaches, and the 21 days
\* of the selector
Windows == {0, 2, 3, 21}

\* all sequences over S of length at most n
SeqsUpTo(S, n) == UNION {[1..k -> S] : k \in 0..n}

\* np.sum(values <= latest)
CountLe(xs, latest) == Cardinality({i \in DOMAIN xs : xs[i] <= latest})

\* a faulty variant of percentile_of: the values equal to latest not counted
percentile_of_strict(xs, latest) ==
    Rat(100 * Cardinality({i \in DOMAIN xs : xs[i] < latest}), Len(xs))

\* percentile = (np.sum(values <= latest) / len(values)) * 100
percentile_of(xs, latest) == Rat(100 * CountLe(xs, latest), Len(xs))

\* cv = (std_flow / abs(avg_flow)) * 100 if avg_flow != 0 else 0
coefficient_of_variation(std_flow, avg_flow) ==
    IF ~EqNum(avg_flow, Zero) THEN Times100(Div(std_flow, Abs(avg_flow))) ELSE Zero

\* a faulty variant of ma_ratio: a zero 21-period mean left in the denominator
ma_ratio_zero_kept(xs) ==
    [i \in DOMAIN xs |->
        fillna(Div(Mean(Rolling(xs, i, 5)), Mean(Rolling(xs, i, 21))), One)]

\* ma_ratio = (ma_5 / ma_21.replace(0, np.nan)).fillna(1), with ma_5 and ma_21 the
\* trailing means of 5 and of 21 periods (min_periods = 1)
ma_ratio(xs) ==
    [i \in DOMAIN xs |->
        LET ma_5  == Mean(Rolling(xs, i, 5))
            ma_21 == Mean(Rolling(xs, i, 21))
        IN  fillna(Div(ma_5, replace_zero_by_nan(ma_21)), One)]

\* the row display_statistics appends for one ticker
StatisticsRow(xs, w) ==
    LET latest_flow == xs[Len(xs)]
        avg_flow    == Mean(xs)
        std_flow    == Std(xs)
        zs          == calculate_z_scores(xs, w)
        latest_z    == zs[Len(zs)]
        ratios      == ma_ratio(xs)
        latest_ma_ratio == ratios[Len(ratios)]
    IN  [fn          |-> "display_statistics",
         latest_z    |-> latest_z,
         level       |-> classify_activity_level(latest_z),
         latest_flow |-> latest_flow,
         avg_flow    |-> avg_flow,
         std_flow    |-> std_flow,
         percentile  |-> percentile_of(xs, latest_flow),
         cv          |-> coefficient_of_variation(std_flow, avg_flow),
         ma_ratio    |-> ratios,
         latest_ma_ratio |-> latest_ma_ratio,
         ma_signal   |-> display_statistics_ma_signal[ma_band(latest_ma_ratio)],
         data_points |-> Len(xs)]

\* the metrics display_flow_metrics shows
FlowMetrics(xs, w) ==
    LET latest == xs[Len(xs)]
        zs     == calculate_z_scores(xs, w)
        z_score == zs[Len(zs)]
    IN  [fn             |-> "display_flow_metrics",
         latest         |-> latest,
         z_score        |-> z_score,
         mean_flow      |-> Mean(xs),
         activity_level |-> classify_activity_level(z_score),
         percentile     |-> percentile_of(xs, latest)]

\* calculate_z_scores(values, window)
CalculateZScores ==
    /\ z_scores' = [returned |-> TRUE, series |-> calculate_z_scores(values, window)]
    /\ UNCHANGED <<run_vars, fetch_vars, values, window, activity, momentum, stats_data, wire, session_vars>>

\* display_statistics for the frame of one ticker: a ticker with no rows is not in
\* the frame, and a ticker in the frame gets one row
DisplayStatistics ==
    /\ stats_data' = IF Len(values) > 0 THEN <<StatisticsRow(values, window)>> ELSE <<>>
    /\ UNCHANGED <<run_vars, fetch_vars, values, window, z_scores, activity, momentum, wire, session_vars>>

\* display_flow_metrics, called with the values of a non-empty frame
DisplayFlowMetrics ==
    /\ Len(values) > 0
    /\ stats_data' = <<FlowMetrics(values, window)>>
    /\ UNCHANGED <<run_vars, fetch_vars, values, window, z_scores, activity, momentum, wire, session_vars>>

InitStats ==
    /\ api = NoApi /\ RunIdle /\ FetchIdle /\ StatIdle
    /\ wire = <<>> /\ SessionIdle
    /\ values \in SeqsUpTo(FlowValues, MaxLen)
    /\ window \in Windows

NextStats == CalculateZScores \/ DisplayStatistics \/ DisplayFlowMetrics

SpecStats == InitStats /\ [][NextStats]_vars

-----------------------------------------------------------------------------
(* The fetch layer: what a call returns for each outcome of the request *)

\* the most tickers one fetch_stock_flow_data call is given
MaxFetch == 2

\* a try body either returns a value or raises
Return(v) == [raised |-> FALSE, value |-> v]

Raise == [raised |-> TRUE, value |-> EmptyDict]

\* the JSON objects a provider response can carry: nothing, or one ticker's series
Bodies ==
    {EmptyDict} \cup {Dict1(t, Dict1("2024-01-01", 20)) : t \in Targets}

\* the outcomes of requests.get(url, params=params, timeout=30) followed by
\* response.json(): the request times out, raises another error, answers with a
\* status other than 200 (its body is never read), or answers 200 with a body that
\* is valid JSON or not
Responses ==
    {[kind |-> k, status_code |-> 0, valid |-> FALSE, data |-> EmptyDict] :
        k \in {"timeout", "error"}}
    \cup {[kind |-> "response", status_code |-> c, valid |-> FALSE, data |-> EmptyDict] :
            c \in {200, 404}}
    \cup {[kind |-> "response", status_code |-> 200, valid |-> TRUE, data |-> b] :
            b \in Bodies}

\* the request timed out, raised, or came back with a status other than 200
Failed(resp) == resp.kind # "response" \/ resp.status_code # 200

\* the try body of force_api_call
force_api_call_try(resp) ==
    IF resp.kind # "response" THEN Raise
    ELSE IF resp.status_code = 200
    THEN IF ~resp.valid THEN Raise
         ELSE Return(IF resp.data # EmptyDict THEN resp.data ELSE EmptyDict)
    ELSE Return(EmptyDict)

\* a faulty variant of force_api_call: no except clause
force_api_call_unhandled(resp) == force_api_call_try(resp)

\* force_api_call(url, params), the same in both analyzers: except Exception
\* returns {}
force_api_call(resp) ==
    IF force_api_call_try(resp).raised THEN Return(EmptyDict) ELSE force_api_call_try(resp)

\* dict.update
Update(a, b) ==
    [k \in DOMAIN a \cup DOMAIN b |-> IF k \in DOMAIN b THEN b[k] ELSE a[k]]

\* the try body of one pass of the loop of fetch_stock_flow_data
fetch_one_try(combined_data, resp) ==
    IF resp.kind # "response" THEN Raise
    ELSE IF resp.status_code = 200
    THEN IF ~resp.valid THEN Raise
         ELSE Return(IF resp.data # EmptyDict THEN Update(combined_data, resp.data)
                     ELSE combined_data)
    ELSE Return(combined_data)

\* the loop of fetch_stock_flow_data over the tickers: except: pass keeps
\* combined_data as it was
RECURSIVE fetch_loop(_, _)
fetch_loop(combined_data, resps) ==
    IF resps = <<>> THEN combined_data
    ELSE LET t == fetch_one_try(combined_data, Head(resps))
         IN  fetch_loop(IF t.raised THEN combined_data ELSE t.value, Tail(resps))

\* MultiSecurityAnalyzer.fetch_stock_flow_data: the pair (mapping, message)
fetch_stock_flow_data(token, transaction_type, resps) ==
    IF ~token THEN [raised |-> FALSE, value |-> EmptyDict, message |-> "No token provided"]
    ELSE IF transaction_type = "combined"
    THEN [raised |-> FALSE, value |-> fetch_loop(EmptyDict, resps), message |-> "success"]
    ELSE [raised |-> FALSE, value |-> EmptyDict, message |-> "Not implemented"]

\* the outcomes of yf.Ticker(ticker).history(...): the lookup times out, raises
\* another error (the import included), or returns a frame of closing prices
Histories ==
    {[kind |-> k, rows |-> EmptyDict] : k \in {"timeout", "error"}}
    \cup {[kind |-> "frame", rows |-> r] :
            r \in {EmptyDict} \cup {Dict1("2024-01-01", c) : c \in {150, 151}}}

\* cache_key = f"{ticker}_{from_date}_{to_date}"
cache_key(ticker, from_date, to_date) == <<ticker, from_date, to_date>>

\* a faulty variant of fetch_stock_price_try: the price_dict stored whether or not
\* it holds a price
fetch_stock_price_try_stores_empty(cache, key, hist) ==
    IF hist.kind # "frame"
    THEN [raised |-> TRUE, value |-> EmptyDict, cache |-> cache, called |-> TRUE]
    ELSE [raised |-> FALSE, value |-> hist.rows,
          cache |-> Update(cache, Dict1(key, hist.rows)), called |-> TRUE]

\* the try body of fetch_stock_price_data_improved: the value returned, the cache
\* it leaves, and whether yfinance was called
fetch_stock_price_try(cache, key, hist) ==
    IF hist.kind # "frame"
    THEN [raised |-> TRUE, value |-> EmptyDict, cache |-> cache, called |-> TRUE]
    ELSE IF hist.rows = EmptyDict
    THEN [raised |-> FALSE, value |-> EmptyDict, cache |-> cache, called |-> TRUE]
    ELSE [raised |-> FALSE, value |-> hist.rows,
          cache |-> Update(cache, Dict1(key, hist.rows)), called |-> TRUE]

\* a faulty variant of fetch_stock_price_data_improved: the cache is not looked up
fetch_stock_price_data_improved_uncached(cache, key, hist) ==
    IF fetch_stock_price_try(cache, key, hist).raised
    THEN [raised |-> FALSE, value |-> EmptyDict, cache |-> cache, called |-> TRUE]
    ELSE fetch_stock_price_try(cache, key, hist)

\* fetch_stock_price_data_improved(ticker, from_date, to_date), the same in both
\* analyzers: a cached range is returned without a lookup, and except Exception
\* returns {}
fetch_stock_price_data_improved(cache, key, hist) ==
    IF key \in DOMAIN cache
    THEN [raised |-> FALSE, value |-> cache[key], cache |-> cache, called |-> FALSE]
    ELSE IF fetch_stock_price_try(cache, key, hist).raised
    THEN [raised |-> FALSE, value |-> EmptyDict, cache |-> cache, called |-> TRUE]
    ELSE fetch_stock_price_try(cache, key, hist)

\* force_api_call(url, params)
ForceApiCall ==
    /\ \E resp \in Responses :
         last_call' = [op |-> "force_api_call", request |-> <<resp>>, cached |-> FALSE,
                       raised |-> force_api_call(resp).raised,
                       value |-> force_api_call(resp).value,
                       cache_before |-> price_cache]
    /\ UNCHANGED <<run_vars, price_cache, stat_vars, wire, session_vars>>

\* fetch_stock_flow_data(tickers, from_date, to_date, transaction_type): one
\* request per ticker
FetchStockFlowData ==
    /\ \E n \in 0..MaxFetch, token \in BOOLEAN, transaction_type \in {"combined", "buy"} :
         \E resps \in [1..n -> Responses] :
            LET out == fetch_stock_flow_data(token, transaction_type, resps)
            IN  /\ (~token \/ transaction_type # "combined") => n = 0
                /\ last_call' = [op |-> "fetch_stock_flow_data", request |-> resps,
                                 cached |-> FALSE, raised |-> out.raised, value |-> out.value,
                                 cache_before |-> price_cache]
    /\ UNCHANGED <<run_vars, price_cache, stat_vars, wire, session_vars>>

\* fetch_stock_price_data_improved(ticker, from_date, to_date)
FetchStockPrice ==
    /\ \E ticker \in Targets, hist \in Histories :
         LET key == cache_key(ticker, "2024-01-01", "2024-01-02")
             out == fetch_stock_price_data_improved(price_cache, key, hist)
         IN  /\ last_call' = [op |-> "fetch_stock_price_data_improved", request |-> <<hist>>,
                              cached |-> key \in DOMAIN price_cache,
                              raised |-> out.raised, value |-> out.value,
                              cache_before |-> price_cache,
                              key |-> key, called |-> out.called]
             /\ price_cache' = out.cache
    /\ UNCHANGED <<run_vars, stat_vars, wire, session_vars>>

InitFetch ==
    /\ api = NoApi /\ RunIdle /\ FetchIdle /\ values = <<>> /\ window = 0 /\ StatIdle
    /\ wire = <<>> /\ SessionIdle

NextFetch == ForceApiCall \/ FetchStockFlowData \/ FetchStockPrice

SpecFetch == InitFetch /\ [][NextFetch]_vars

-----------------------------------------------------------------------------
(* Fetch sequencing: each flow-data fetch function of the two analyzers,     *)
(* applied to a ticker list, with the requests and sleeps it makes           *)

\* a fetch is applied to at most MaxTickers tickers
MaxTickers == 3

TickerLists == SeqsUpTo(Targets, MaxTickers)

TransactionTypes == {"combined", "buy", "sell"}

\* the call of a fetch function and the requests it made
Called(op, token, tickers, kind, requests) ==
    /\ last_call' = [op |-> op, raised |-> FALSE, token |-> token, tickers |-> tickers,
                     kind |-> kind]
    /\ wire' = requests
    /\ UNCHANGED <<run_vars, price_cache, stat_vars, session_vars>>

\* SingleSecurityAnalyzer.fetch_stock_flow_data(tickers, from_date, to_date, transaction_type)
SingleFetchStockFlowData ==
    \E token \in BOOLEAN, tickers \in TickerLists, transaction_type \in TransactionTypes :
        Called("single.fetch_stock_flow_data", token, tickers, transaction_type,
               SingleFlowRequests(token, tickers, transaction_type))

\* SingleSecurityAnalyzer.fetch_options_data_fixed(tickers, from_date, to_date, moneyness, size)
SingleFetchOptionsDataFixed ==
    \E token \in BOOLEAN, tickers \in TickerLists, sz \in Sizes :
        Called("single.fetch_options_data_fixed", token, tickers, sz,
               SingleOptionsRequests(token, tickers, sz))

\* MultiSecurityAnalyzer.fetch_stock_flow_data(tickers, from_date, to_date, transaction_type)
MultiFetchStockFlowData ==
    \E token \in BOOLEAN, tickers \in TickerLists, transaction_type \in TransactionTypes :
        Called("multi.fetch_stock_flow_data", token, tickers, transaction_type,
               MultiFlowRequests(token, tickers, transaction_type))

\* MultiSecurityAnalyzer.fetch_options_data_fixed(tickers, from_date, to_date, moneyness, size)
MultiFetchOptionsDataFixed ==
    \E token \in BOOLEAN, tickers \in TickerLists, sz \in Sizes :
        Called("multi.fetch_options_data_fixed", token, tickers, sz,
               MultiOptionsRequests(token, tickers, sz))

InitWire ==
    /\ api = NoApi /\ RunIdle /\ FetchIdle /\ values = <<>> /\ window = 0 /\ StatIdle
    /\ wire = <<>> /\ SessionIdle

NextWire ==
    \/ SingleFetchStockFlowData
    \/ SingleFetchOptionsDataFixed
    \/ MultiFetchStockFlowData
    \/ MultiFetchOptionsDataFixed

SpecWire == InitWire /\ [][NextWire]_vars

-----------------------------------------------------------------------------
(* The session.  st.session_state is a mapping from the keys that are set to *)
(* their values; the clock counts whole minutes.                             *)

\* key in st.session_state
Has(state, key) == key \in DOMAIN state

\* st.session_state[key] = value
Put(state, key, value) == Update(state, Dict1(key, value))

\* del st.session_state[key] for the keys of a set
Del(state, keys) == [k \in DOMAIN state \ keys |-> state[k]]

\* st.session_state.get(key, default)
GetKey(state, key, default) == IF Has(state, key) THEN state[key] ELSE default

\* the arguments of check_rate_limit(max_requests=50, window_minutes=60) in the
\* main analysis execution
max_requests == 50

window_minutes == 60

\* a faulty variant of check_rate_limit: a request made exactly window_minutes
\* ago still counts
check_rate_limit_cutoff_kept(state, limit, minutes, t) ==
    LET history == GetKey(state, "request_history", <<>>)
        cutoff  == t - minutes
        kept    == SelectSeq(history, LAMBDA req_time : req_time >= cutoff)
    IN  IF Len(kept) >= limit
        THEN [stopped |-> TRUE, state |-> Put(state, "request_history", kept)]
        ELSE [stopped |-> FALSE, state |-> Put(state, "request_history", Append(kept, t))]

\* check_rate_limit(max_requests, window_minutes) at the clock reading t:
\* whether it stopped the run, and the session state it leaves
check_rate_limit(state, limit, minutes, t) ==
    LET history == GetKey(state, "request_history", <<>>)
        cutoff  == t - minutes
        kept    == SelectSeq(history, LAMBDA req_time : req_time > cutoff)
    IN  IF Len(kept) >= limit
        THEN [stopped |-> TRUE, state |-> Put(state, "request_history", kept)]
        ELSE [stopped |-> FALSE, state |-> Put(state, "request_history", Append(kept, t))]

-----------------------------------------------------------------------------
(* The rate limiter on its own: calls of check_rate_limit as the clock moves *)

\* the clock stops at MaxClock minutes
MaxClock == 61

\* the clock moves on by half a window, or by a minute more
RateSteps == {30, 31}

\* check_rate_limit(max_requests=50, window_minutes=60)
CheckRateLimit ==
    LET out == check_rate_limit(session_state, max_requests, window_minutes, now)
    IN  /\ session_state' = out.state
        /\ last_run' = [event |-> "check_rate_limit", at |-> now, stopped |-> out.stopped,
                        before |-> GetKey(session_state, "request_history", <<>>)]
        /\ UNCHANGED <<run_vars, fetch_vars, stat_vars, wire, now, stored_hash, admitted>>

\* time passes between two calls
RateTick ==
    /\ \E d \in RateSteps : now + d <= MaxClock /\ now' = now + d
    /\ UNCHANGED <<run_vars, fetch_vars, stat_vars, wire, session_state, stored_hash,
                   last_run, admitted>>

InitRate ==
    /\ api = NoApi /\ RunIdle /\ FetchIdle /\ values = <<>> /\ window = 0 /\ StatIdle
    /\ wire = <<>> /\ SessionIdle

NextRate == CheckRateLimit \/ RateTick

SpecRate == InitRate /\ [][NextRate]_vars

-----------------------------------------------------------------------------
(* The script runs of a session: every interaction of the user runs the      *)
(* script of main_app.py from the top against st.session_state               *)

\* the passwords a user types
Passwords == {"", "letmein1", "password"}

\* hashlib.sha256(password.encode()).hexdigest()
sha256_hexdigest(password) ==
    CASE password = ""
           -> "e3b0c44298fc1c149afbf4c8996fb92427ae41e4649b934ca495991b7852b855"
      [] password = "letmein1"
           -> "2e844ad651c6b9a69cbe8f887b6a74dd3b9fc489aae777701e6e2d0d523a0cfb"
      [] password = "password"
           -> "5e884898da28047151d0e56f8dc6292773603d0d6aabbdd62a11ef721d1542d8"

\* st.secrets.get("password_hash", ""): no hash configured, or the hash that
\* generate_password_hash.py prints for the password letmein1
StoredHashes == {"", sha256_hexdigest("letmein1")}

\* a failed login is repeated at most MaxAttempts times
MaxAttempts == 3

\* the timeout of monitor_session, 1 * 3600 seconds
session_seconds == 3600

\* session_duration.total_seconds() for a login at login_time and a run at t
total_seconds(login_time, t) == (t - login_time) * 60

\* the keys "Reset Session" keeps, with the defaults of the session state
\* initialization
OptionDefaults ==
    [call_put_selection |-> "net_premium", transaction_type |-> "combined",
     moneyness_option |-> "OTM", size_option |-> "combined", z_score_window |-> 21]

\* a faulty variant of password_entered: the entered password itself is compared
\* with the secret
password_entered_unhashed(state, secret, t) ==
    IF state["password"] = secret
    THEN Del(Put(Put(state, "password_correct", TRUE), "login_time", t), {"password"})
    ELSE Put(Put(state, "password_correct", FALSE),
             "failed_attempts", GetKey(state, "failed_attempts", 0) + 1)

\* check_password.password_entered, the on_change callback of the password box;
\* hmac.compare_digest is equality of the two strings
password_entered(state, secret, t) ==
    LET entered_hash == sha256_hexdigest(state["password"])
    IN  IF entered_hash = secret
        THEN Del(Put(Put(state, "password_correct", TRUE), "login_time", t), {"password"})
        ELSE Put(Put(state, "password_correct", FALSE),
                 "failed_attempts", GetKey(state, "failed_attempts", 0) + 1)

\* check_password(): True lets the script go on, False shows the login screen
check_password(state) == GetKey(state, "password_correct", FALSE)

\* a faulty variant of monitor_session: an expired session is stopped but its
\* state is kept
monitor_session_state_kept(state, t) ==
    LET started == IF Has(state, "session_start") THEN state
                   ELSE Put(state, "session_start", t)
    IN  IF total_seconds(GetKey(started, "login_time", t), t) > session_seconds
        THEN [stopped |-> TRUE, state |-> started]
        ELSE [stopped |-> FALSE, state |-> started]

\* monitor_session() up to the Logout button
monitor_session(state, t) ==
    LET started == IF Has(state, "session_start") THEN state
                   ELSE Put(state, "session_start", t)
    IN  IF total_seconds(GetKey(started, "login_time", t), t) > session_seconds
        THEN [stopped |-> TRUE, state |-> EmptyDict]
        ELSE [stopped |-> FALSE, state |-> started]

\* how a script run ends: the state it leaves, what it did and what it shows
Ended(state, how, screen) == [state |-> state, outcome |-> how, screen |-> screen]

\* the script from the top to the buttons: the authentication check, the session
\* monitor, the session state initialization
script_top(state, t) ==
    IF ~check_password(state) THEN Ended(state, "login", "login")
    ELSE IF monitor_session(state, t).stopped
    THEN Ended(monitor_session(state, t).state, "expired", "expired")
    ELSE Ended(Update(OptionDefaults, monitor_session(state, t).state), "page", "page")

\* the main analysis execution after "Start Analysis": the token and the ticker
\* box are checked, then the rate limit, then the analyzer runs
main_analysis(state, valid, t) ==
    IF ~valid THEN Ended(state, "input_error", "page")
    ELSE IF check_rate_limit(state, max_requests, window_minutes, t).stopped
    THEN Ended(check_rate_limit(state, max_requests, window_minutes, t).state,
               "rate_limited", "page")
    ELSE Ended(check_rate_limit(state, max_requests, window_minutes, t).state,
               "analysis", "page")

\* one script run with the button pressed in it ("none": no button); st.rerun()
\* runs the script once more without a button
script_run(state, pressed, valid, t) ==
    LET top == script_top(state, t)
    IN  IF top.outcome # "page" THEN top
        ELSE CASE pressed = "Logout" -> script_top(EmptyDict, t)
               [] pressed = "Clear Cache" -> script_top(top.state, t)
               [] pressed = "Reset Session" ->
                     script_top(Del(top.state, DOMAIN top.state \ DOMAIN OptionDefaults), t)
               [] pressed = "Start Analysis" -> main_analysis(top.state, valid, t)
               [] OTHER -> top

\* the record of a script run
Ran(event, entered, out) ==
    /\ session_state' = out.state
    /\ last_run' = [event |-> event, at |-> now, entered |-> entered,
                    outcome |-> out.outcome, screen |-> out.screen]
    /\ admitted' = IF out.outcome = "analysis" THEN admitted + 1 ELSE admitted
    /\ UNCHANGED <<run_vars, fetch_vars, stat_vars, wire, now, stored_hash>>

\* the page is opened, or the script runs again for a widget that is not a button
LoadPage ==
    Ran("load", <<>>, script_run(session_state, "none", FALSE, now))

\* a password is typed into the login screen: the box takes the text, the
\* callback runs if the text has changed, then the script
EnterPassword ==
    /\ last_run.screen = "login"
    /\ \E pw \in Passwords :
         /\ pw # GetKey(session_state, "password", "")
         /\ GetKey(session_state, "failed_attempts", 0) < MaxAttempts
         /\ Ran("password_entered", <<pw>>,
                script_run(password_entered(Put(session_state, "password", pw),
                                            stored_hash, now),
                           "none", FALSE, now))

\* "Start Analysis" with or without a token and tickers
StartAnalysis ==
    /\ last_run.screen = "page"
    /\ admitted <= max_requests
    /\ \E valid \in BOOLEAN :
         Ran("Start Analysis", <<>>, script_run(session_state, "Start Analysis", valid, now))

\* "Clear Cache"
ClearCache ==
    /\ last_run.screen = "page"
    /\ Ran("Clear Cache", <<>>, script_run(session_state, "Clear Cache", FALSE, now))

\* "Reset Session"
ResetSession ==
    /\ last_run.screen = "page"
    /\ Ran("Reset Session", <<>>, script_run(session_state, "Reset Session", FALSE, now))

\* "Logout"
Logout ==
    /\ last_run.screen = "page"
    /\ Ran("Logout", <<>>, script_run(session_state, "Logout", FALSE, now))

\* the clock moves on by the timeout, or by a minute more
SessionSteps == {60, 61}

\* time passes between two script runs
SessionTick ==
    /\ \E d \in SessionSteps : now + d <= MaxClock /\ now' = now + d
    /\ admitted' = 0
    /\ UNCHANGED <<run_vars, fetch_vars, stat_vars, wire, session_state, stored_hash,
                   last_run>>

InitSession ==
    /\ api = NoApi /\ RunIdle /\ FetchIdle /\ values = <<>> /\ window = 0 /\ StatIdle
    /\ wire = <<>>
    /\ session_state = EmptyDict
    /\ now = 0
    /\ stored_hash \in StoredHashes
    /\ last_run = [event |-> "none", screen |-> "none", outcome |-> "none"]
    /\ admitted = 0

NextSession ==
    \/ LoadPage
    \/ EnterPassword
    \/ StartAnalysis
    \/ ClearCache
    \/ ResetSession
    \/ Logout
    \/ SessionTick

SpecSession == InitSession /\ [][NextSession]_vars

-----------------------------------------------------------------------------
(* Properties of a finished run *)

MultiCombinedDone ==
    pc = "done" /\ view = "Multi Securities" /\ data_source = "Combined Flow"

MultiOptionsDone ==
    pc = "done" /\ view = "Multi Securities" /\ data_source = "Options Flow"

SingleCombinedDone ==
    pc = "done" /\ view = "Single Security" /\ data_source = "Combined Flow"

SingleOptionsDone ==
    pc = "done" /\ view = "Single Security" /\ data_source = "Options Flow"

OptionSeries == Series \ {"retail"}

\* the per-date series that analyzer v reconciles for ticker t from raw series s
Reconciled(v, s, series, t) ==
    CASE v = "Multi Securities" /\ s = "retail" -> MultiRetailRecords(series, t)
      [] v = "Multi Securities" /\ s # "retail" -> MultiOptionsRecords(series, t)
      [] v = "Single Security" /\ s = "retail"  -> SingleRetailRecords(series, t)
      [] v = "Single Security" /\ s # "retail"  -> SingleOptionsRecords(series, t)

\* the dates on which ticker t has a value in any of its five reconciled series
UnionDates(v, t) == UNION {DOMAIN Reconciled(v, s, api[s], t) : s \in Series}

\* small_net + large_net of ticker t on date d, from the reconciled series
OptionsNet(v, t, d) ==
    (Get(Reconciled(v, "small_call", api.small_call, t), d)
       - Get(Reconciled(v, "small_put", api.small_put, t), d))
    + (Get(Reconciled(v, "large_call", api.large_call, t), d)
       - Get(Reconciled(v, "large_put", api.large_put, t), d))

\* the rows of a record list that carry ticker t
RowsOf(recs, t) == {i \in DOMAIN recs : recs[i].ticker = t}

\* the date strings of a record list
DatesOf(recs) == {strftime(recs[i].date) : i \in DOMAIN recs}

\* C1: for every ticker of the ticker list the combined-flow records carry exactly
\* the union of the dates of the ticker's five reconciled series, one record per
\* date, and a date without a retail value carries the options component alone.
C1_OneRecordPerUnionDate ==
    /\ MultiCombinedDone =>
         \A n \in DOMAIN ticker_list :
            LET t    == ticker_list[n]
                rows == RowsOf(combined_records, t)
                ret  == Reconciled("Multi Securities", "retail", api.retail, t)
            IN  /\ {strftime(combined_records[i].date) : i \in rows}
                     = UnionDates("Multi Securities", t)
                /\ \A d \in UnionDates("Multi Securities", t) :
                      Cardinality({i \in rows :
                                      combined_records[i].date = to_datetime(d)}) = 1
                /\ \A i \in rows :
                      strftime(combined_records[i].date) \notin DOMAIN ret
                        => combined_records[i].value
                             = OptionsNet("Multi Securities", t,
                                          strftime(combined_records[i].date))
    /\ SingleCombinedDone /\ outcome = "success" =>
         \A n \in DOMAIN charts :
            LET t    == charts[n].ticker
                recs == charts[n].records
                ret  == Reconciled("Single Security", "retail", api.retail, t)
            IN  /\ DatesOf(recs) = UnionDates("Single Security", t)
                /\ \A d \in UnionDates("Single Security", t) :
                      Cardinality({i \in DOMAIN recs : recs[i].date = to_datetime(d)}) = 1
                /\ \A i \in DOMAIN recs :
                      strftime(recs[i].date) \notin DOMAIN ret
                        => /\ recs[i].retail_flow = 0
                           /\ recs[i].combined_flow
                                = OptionsNet("Single Security", t, strftime(recs[i].date))

\* a multi-security run that emitted a date on which the ticker has options
\* activity and no retail value
C1_OptionsOnlyDateEmitted ==
    /\ MultiCombinedDone
    /\ \E i \in DOMAIN combined_records :
          LET r == combined_records[i]
          IN  /\ strftime(r.date)
                   \notin DOMAIN Reconciled("Multi Securities", "retail", api.retail, r.ticker)
              /\ DOMAIN Reconciled("Multi Securities", "retail", api.retail, r.ticker) # {}
              /\ r.value # 0

\* C2: every combined-flow record carries
\* retail(date, 0) + (small_call(date, 0) - small_put(date, 0))
\*                 + (large_call(date, 0) - large_put(date, 0)),
\* each operand being the ticker's reconciled value for the date.
C2_CombinedIsRetailPlusNets ==
    /\ MultiCombinedDone =>
         \A i \in DOMAIN combined_records :
            LET r == combined_records[i]
                d == strftime(r.date)
            IN  r.value
                  = Get(Reconciled("Multi Securities", "retail", api.retail, r.ticker), d)
                    + OptionsNet("Multi Securities", r.ticker, d)
    /\ SingleCombinedDone =>
         \A n \in DOMAIN charts : \A i \in DOMAIN charts[n].records :
            LET r == charts[n].records[i]
                t == charts[n].ticker
                d == strftime(r.date)
            IN  /\ r.combined_flow
                     = Get(Reconciled("Single Security", "retail", api.retail, t), d)
                       + OptionsNet("Single Security", t, d)
                /\ r.combined_flow = r.retail_flow + r.small_net + r.large_net

\* a multi-security record whose date has a retail value, a call value and a put value
C2_RetailCallAndPutOnOneDate ==
    /\ MultiCombinedDone
    /\ \E i \in DOMAIN combined_records :
          LET r == combined_records[i]
              d == strftime(r.date)
          IN  /\ Get(Reconciled("Multi Securities", "retail", api.retail, r.ticker), d) # 0
              /\ Get(Reconciled("Multi Securities", "small_call", api.small_call, r.ticker), d) # 0
              /\ Get(Reconciled("Multi Securities", "small_put", api.small_put, r.ticker), d) # 0

\* the call (put) values of one ticker per date, summed from its Call (Put) records
SumByDate(recs) ==
    [d \in DatesOf(recs) |->
        SumValues(recs, {i \in DOMAIN recs : recs[i].date = to_datetime(d)})]

\* the net-premium records recs hold exactly the dates of A or B, a date of A alone
\* with A[date] - 0 and a date of B alone with 0 - B[date]
NetOfUnion(recs, A, B) ==
    /\ DatesOf(recs) = DOMAIN A \cup DOMAIN B
    /\ \A i \in DOMAIN recs :
          LET d == strftime(recs[i].date)
          IN  /\ d \in DOMAIN A /\ d \notin DOMAIN B => recs[i].value = A[d] - 0
              /\ d \in DOMAIN B /\ d \notin DOMAIN A => recs[i].value = 0 - B[d]

\* C3: for the call mapping A and the put mapping B reconciled for one ticker, the
\* net-premium output has exactly the dates of A or B; a date in A alone has the
\* value A[date] - 0 and a date in B alone the value 0 - B[date].
C3_NetPremiumOverUnionOfDates ==
    /\ MultiOptionsDone =>
         \A n \in DOMAIN ticker_list :
            LET t == ticker_list[n]
                fetched == MultiFetchOptions("combined")
            IN  NetOfUnion(SelectSeq(net_records, LAMBDA r : r.ticker = t),
                           MultiOptionsRecords(fetched.call_data, t),
                           MultiOptionsRecords(fetched.put_data, t))
    /\ SingleOptionsDone =>
         \A n \in DOMAIN charts :
            NetOfUnion(charts[n].net, SumByDate(charts[n].call), SumByDate(charts[n].put))

\* a multi-security Options Flow run in which a ticker has a date with calls and no
\* puts and another date with puts and no calls
C3_CallOnlyAndPutOnlyDates ==
    /\ MultiOptionsDone
    /\ \E i, j \in DOMAIN net_records :
          /\ net_records[i].ticker = net_records[j].ticker
          /\ net_records[i].call_value # 0 /\ net_records[i].put_value = 0
          /\ net_records[j].call_value = 0 /\ net_records[j].put_value # 0
          /\ net_records[i].value = net_records[i].call_value
          /\ net_records[j].value = 0 - net_records[j].put_value

\* the (ticker, date, value) triples of a record list, values negated when neg
Triples(recs, neg) ==
    {<<recs[i].ticker, recs[i].date, IF neg THEN 0 - recs[i].value ELSE recs[i].value>> :
        i \in DOMAIN recs}

\* C5: the net-premium calculation called with the call and put inputs swapped
\* gives the same (ticker, date) records with every value negated.
C5_SwapNegatesNetPremium ==
    MultiOptionsDone =>
        LET fetched == MultiFetchOptions("combined")
            swapped == calculate_net_premium_multi(fetched.put_data, fetched.call_data,
                                                   ticker_list)
        IN  /\ Len(swapped) = Len(net_records)
            /\ Triples(swapped, FALSE) = Triples(net_records, TRUE)

\* a multi-security Options Flow run with a non-zero net premium on a date that
\* only the call side has
C5_NetPremiumOnCallOnlyDate ==
    /\ MultiOptionsDone
    /\ \E i \in DOMAIN net_records :
          /\ net_records[i].put_value = 0
          /\ net_records[i].value # 0
          /\ <<net_records[i].ticker, net_records[i].date, 0 - net_records[i].value>>
               \in Triples(calculate_net_premium_multi(
                               MultiFetchOptions("combined").put_data,
                               MultiFetchOptions("combined").call_data, ticker_list), FALSE)

\* the (date, value) pairs the specification's scenario expects for AAPL
ScenarioResult ==
    << <<to_datetime("2024-01-01"), 80>>, <<to_datetime("2024-01-02"), 0 - 20>> >>

\* C4: with retail {2024-01-01: 100, 2024-01-02: -50}, small-call {2024-01-02: 30},
\* small-put {}, large-call {}, large-put {2024-01-01: 20} for ticker AAPL, a
\* Combined Flow run gives exactly two records: 2024-01-01 = 80, 2024-01-02 = -20.
C4_ScenarioGives80AndMinus20 ==
    pc = "done" /\ data_source = "Combined Flow" /\ api = ScenarioApi
      /\ ticker_list = <<K_AAPL>>
    => /\ view = "Multi Securities" =>
            /\ [i \in DOMAIN combined_records |->
                  <<combined_records[i].date, combined_records[i].value>>] = ScenarioResult
            /\ \A i \in DOMAIN combined_records : combined_records[i].ticker = K_AAPL
       /\ view = "Single Security" =>
            /\ Len(charts) = 1
            /\ charts[1].ticker = K_AAPL
            /\ [i \in DOMAIN charts[1].records |->
                  <<charts[1].records[i].date, charts[1].records[i].combined_flow>>]
                 = ScenarioResult

\* the multi-security analyzer has run the scenario and holds its two records
C4_MultiScenarioResult ==
    /\ MultiCombinedDone /\ api = ScenarioApi /\ ticker_list = <<K_AAPL>>
    /\ Len(combined_records) = 2
    /\ combined_records[1].value = 80
    /\ combined_records[2].value = 0 - 20

\* the key test analyzer v applies to raw series s, as a table
MatchTable(v, s) ==
    CASE v = "Multi Securities" /\ s = "retail" -> MultiRetailMatches
      [] v = "Multi Securities" /\ s # "retail" -> MultiOptionsMatches
      [] v = "Single Security" /\ s = "retail"  -> SingleRetailMatches
      [] v = "Single Security" /\ s # "retail"  -> SingleOptionsMatches

\* per date, the sum over ALL dict-valued keys of raw series s that analyzer v's
\* key test accepts for ticker t
AllMatching(v, s, t) ==
    Accumulate(api[s], {i \in DOMAIN api[s] :
                           api[s][i].isdict /\ MatchTable(v, s)[api[s][i].key, t]})

\* retail + small_net + large_net of ticker t on date d, every matching key summed
AllMatchingCombined(v, t, d) ==
    Get(AllMatching(v, "retail", t), d)
    + (Get(AllMatching(v, "small_call", t), d) - Get(AllMatching(v, "small_put", t), d))
    + (Get(AllMatching(v, "large_call", t), d) - Get(AllMatching(v, "large_put", t), d))

\* C6: when several raw keys of one series match the ticker, the reconciled value
\* of a date is the sum over all matching keys (a key without the date counts 0),
\* for the retail series as for each options series.
C6_AllMatchingKeysSummed ==
    /\ MultiCombinedDone =>
         \A i \in DOMAIN combined_records :
            LET r == combined_records[i]
            IN  r.value = AllMatchingCombined("Multi Securities", r.ticker, strftime(r.date))
    /\ SingleCombinedDone /\ outcome = "success" =>
         \A n \in DOMAIN charts : \A i \in DOMAIN charts[n].records :
            LET r == charts[n].records[i]
                t == charts[n].ticker
                d == strftime(r.date)
            IN  /\ r.retail_flow = Get(AllMatching("Single Security", "retail", t), d)
                /\ r.small_net = Get(AllMatching("Single Security", "small_call", t), d)
                                   - Get(AllMatching("Single Security", "small_put", t), d)
                /\ r.large_net = Get(AllMatching("Single Security", "large_call", t), d)
                                   - Get(AllMatching("Single Security", "large_put", t), d)
                /\ r.combined_flow = AllMatchingCombined("Single Security", t, d)

\* a raw series without its i-th key
RemoveAt(series, i) == SubSeq(series, 1, i - 1) \o SubSeq(series, i + 1, Len(series))

\* the values of the i-th key of series are part of what analyzer v reconciles for
\* ticker t on date d: the date is there, and without the key the value is lower
\* by exactly the key's value
Included(v, s, series, i, t, d) ==
    LET with    == Reconciled(v, s, series, t)
        without == Reconciled(v, s, RemoveAt(series, i), t)
    IN  /\ d \in DOMAIN with
        /\ with[d] = Get(without, d) + series[i].items[d]

\* the finished Combined Flow run holds a record of ticker t on date d
RecordedOn(t, d) ==
    IF view = "Multi Securities"
    THEN \E i \in RowsOf(combined_records, t) : combined_records[i].date = to_datetime(d)
    ELSE \E n \in DOMAIN charts :
            /\ charts[n].ticker = t
            /\ \E i \in DOMAIN charts[n].records : charts[n].records[i].date = to_datetime(d)

\* target t is a case-insensitive substring of raw key k
SubstringOf(t, k) == Contains(Upper(k), Upper(t))

\* C7: whenever the ticker is a case-insensitive substring of a raw key, the key
\* matches and its values are part of the ticker's reconciled series, for retail
\* and options series alike.  (For retail the case of one such key is stated, so
\* that the choice among several keys plays no part.)
C7_SubstringKeysIncluded ==
    /\ pc = "done" /\ data_source = "Combined Flow" /\ outcome # "error" =>
         \A n \in DOMAIN ticker_list : \A s \in Series : \A i \in DOMAIN api[s] :
            LET t == ticker_list[n]
                e == api[s][i]
                alone == \A j \in DOMAIN api[s] :
                            api[s][j].isdict /\ SubstringOf(t, api[s][j].key) => j = i
            IN  e.isdict /\ SubstringOf(t, e.key) /\ (s = "retail" => alone) =>
                    \A d \in DOMAIN e.items :
                        Included(view, s, api[s], i, t, d) /\ RecordedOn(t, d)
    /\ MultiOptionsDone =>
         \A n \in DOMAIN ticker_list : \A side \in {"call_data", "put_data"} :
            LET t == ticker_list[n]
                series == MultiFetchOptions("combined")[side]
            IN  \A i \in DOMAIN series :
                   SubstringOf(t, series[i].key) =>
                      \A d \in DOMAIN series[i].items :
                         /\ Included(view, "small_call", series, i, t, d)
                         /\ \E j \in RowsOf(net_records, t) :
                               net_records[j].date = to_datetime(d)

\* rules 3 and 4 for raw key k and upper-case target t: the segment after the last
\* underscore is t, or k ends with "_" + t, or k starts with t + "_"
SegmentPrefixOrSuffix(k, t) ==
    \/ HasUnderscore(k) /\ Upper(LastSegment(k)) = t
    \/ EndsWith(Upper(k), <<"_">> \o t)
    \/ StartsWith(Upper(k), t \o <<"_">>)

\* C8: a raw options key whose last segment is the ticker, or that ends with
\* "_" + ticker or starts with ticker + "_" (case-insensitively), has its per-date
\* values included in the ticker's reconciled options series, in the
\* single-security and in the multi-security analyzer.
C8_SegmentPrefixSuffixKeysIncluded ==
    pc = "done" /\ data_source = "Combined Flow" /\ outcome # "error" =>
        \A n \in DOMAIN ticker_list : \A s \in OptionSeries : \A i \in DOMAIN api[s] :
            LET t == ticker_list[n]
                e == api[s][i]
            IN  e.isdict /\ SegmentPrefixOrSuffix(e.key, t) =>
                    \A d \in DOMAIN e.items :
                        Included(view, s, api[s], i, t, d) /\ RecordedOn(t, d)

\* table rows has a statistics row or a no-data marker for ticker t
Covers(rows, t) ==
    \E n \in DOMAIN rows : rows[n].ticker = t /\ rows[n].kind \in {"stats", "no_data"}

\* C9: for every requested ticker and every flow type (Retail, Options Small,
\* Options Large, Combined) the statistics table and the HTML report hold a
\* statistics row or an explicit no-data marker for the ticker.
C9_EveryRequestedTickerReported ==
    pc = "done" /\ view = "Multi Securities" /\ outcome = "success" =>
        \A n \in DOMAIN ticker_list :
            /\ Covers(stats_rows, ticker_list[n])
            /\ report.generated
            /\ \A flow \in {"retail", "options_small", "options_large", "combined"} :
                  Covers(report[flow].rows, ticker_list[n])

\* C10: in a Combined Flow run in which one of the options call/put fetches came
\* back empty while the retail fetch has data for a ticker, the run is not
\* aborted and the ticker's combined series is produced from the components that
\* are there, the missing ones counted as 0.
C10_EmptyOptionsFetchNotFatal ==
    pc = "done" /\ data_source = "Combined Flow" =>
        \A n \in DOMAIN ticker_list :
            LET t == ticker_list[n]
                retail == Reconciled(view, "retail", api.retail, t)
            IN  /\ \E s \in OptionSeries : api[s] = <<>>
                /\ \E s \in OptionSeries : api[s] # <<>>
                /\ retail # EmptyDict
                =>
                    /\ outcome = "success"
                    /\ \A d \in DOMAIN retail : RecordedOn(t, d)
                    /\ view = "Single Security" =>
                          \A m \in DOMAIN charts :
                              charts[m].ticker = t =>
                                 charts[m].records = display_combined_flow_chart(api, t)
                    /\ view = "Multi Securities" =>
                          {combined_records[i] : i \in RowsOf(combined_records, t)}
                             = Range(CombinedPassMulti(api, t))

-----------------------------------------------------------------------------
(* Properties of the classifiers *)

\* the level the five bands give to the Z-score k / 10
BandOfZ(k) ==
    IF k < 0 - 15 THEN "Extreme Light"
    ELSE IF k < 0 - 5 THEN "Light"
    ELSE IF k < 5 THEN "Neutral"
    ELSE IF k < 15 THEN "Elevated"
    ELSE "Crowded"

ActivityClassified == activity.level # "none"

MomentumClassified == momentum.single # "none"

\* C12: the activity classification is total and exact at its boundaries:
\* z < -1.5 is Extreme Light, -1.5 <= z < -0.5 is Light, -0.5 <= z < 0.5 is
\* Neutral, 0.5 <= z < 1.5 is Elevated and z >= 1.5 is Crowded.
C12_ActivityLevelByBand ==
    ActivityClassified =>
        \A k \in Grid : activity.z_score = Rat(k, 10) => activity.level = BandOfZ(k)

\* a Z-score of exactly -1.5, classified Light
C12_MinusOnePointFiveIsLight ==
    activity.z_score = Rat(0 - 3, 2) /\ activity.level = "Light"

\* C13 as stated: every MA ratio r >= 1.5, exactly 1.5 included, is Strong Uptrend
\* and the Uptrend band is exactly 1.0 <= r < 1.5.
C13_StrongUptrendFromOnePointFive ==
    MomentumClassified =>
        \A k \in Grid : momentum.ratio = Rat(k, 10) =>
            /\ k >= 15 => momentum.single = "Strong Uptrend" /\ momentum.multi = "Strong Up"
            /\ (k >= 10 /\ k < 15) => momentum.single = "Uptrend" /\ momentum.multi = "Uptrend"

\* C13 amended: every MA ratio r > 1.5 is Strong Uptrend and the Uptrend band is
\* 1.0 <= r <= 1.5, exactly 1.5 included.
C13_StrongUptrendAboveOnePointFive ==
    MomentumClassified =>
        \A k \in Grid : momentum.ratio = Rat(k, 10) =>
            /\ k > 15 => momentum.single = "Strong Uptrend" /\ momentum.multi = "Strong Up"
            /\ (k >= 10 /\ k <= 15) => momentum.single = "Uptrend" /\ momentum.multi = "Uptrend"

\* an MA ratio of exactly 1.5, signalled Uptrend
C13_OnePointFiveIsUptrend ==
    momentum.ratio = Rat(3, 2) /\ momentum.single = "Uptrend" /\ momentum.multi = "Uptrend"

\* C14: an MA ratio of exactly 1.0 is Uptrend and one of exactly 0.5 is Downtrend;
\* r < 0.5 is Strong Downtrend and 0.5 <= r < 1.0 is Downtrend.
C14_LowerBandsByRatio ==
    MomentumClassified =>
        \A k \in Grid : momentum.ratio = Rat(k, 10) =>
            /\ k = 10 => momentum.single = "Uptrend" /\ momentum.html = "Uptrend"
            /\ (k >= 5 /\ k < 10) => momentum.single = "Downtrend" /\ momentum.html = "Downtrend"
            /\ k < 5 => momentum.single = "Strong Downtrend" /\ momentum.html = "Strong Down"

\* an MA ratio of exactly 0.5, signalled Downtrend
C14_OneHalfIsDowntrend ==
    momentum.ratio = Rat(1, 2) /\ momentum.single = "Downtrend" /\ momentum.html = "Downtrend"

-----------------------------------------------------------------------------
(* Properties of the statistics *)

\* every value of the series is the same
ConstantSeries(xs) == \A i, j \in DOMAIN xs : xs[i] = xs[j]

\* the series is sorted ascending
SortedAscending(xs) == \A i, j \in DOMAIN xs : i <= j => xs[i] <= xs[j]

\* x <= y for two non-negative finite floats
LeNum(x, y) == IsNum(x) /\ IsNum(y) /\ x.p * y.q <= y.p * x.q

\* display_statistics has appended its row
StatisticsShown == stats_data # <<>> /\ stats_data[1].fn = "display_statistics"

\* display_flow_metrics has computed its metrics
FlowMetricsShown == stats_data # <<>> /\ stats_data[1].fn = "display_flow_metrics"

C16_SameLengthAndShortIsZero ==
    z_scores.returned =>
        /\ Len(z_scores.series) = Len(values)
        /\ Len(values) <= 1 => \A i \in DOMAIN z_scores.series : z_scores.series[i] = Zero

\* a single non-zero point scored
C16_SinglePointScored ==
    z_scores.returned /\ Len(values) = 1 /\ values[1] # 0 /\ Len(z_scores.series) = 1

\* C17: at every index, if the 21-period trailing mean (min periods 1) is exactly
\* 0 the MA ratio is exactly 1, otherwise it is the 5-period trailing mean divided
\* by the 21-period trailing mean; the ratio is never NaN or infinite.
C17_MaRatioDefinedEverywhere ==
    StatisticsShown =>
        \A i \in DOMAIN values :
            LET w5  == Rolling(values, i, 5)
                w21 == Rolling(values, i, 21)
                r   == stats_data[1].ma_ratio[i]
            IN  /\ IsNum(r)
                /\ Sum(w21) = 0 => r = One
                /\ Sum(w21) # 0 => r = Rat(Sum(w5) * Len(w21), Len(w5) * Sum(w21))

\* a 21-period mean of exactly 0 under a non-zero 5-period mean
C17_ZeroLongMeanNonZeroShortMean ==
    /\ StatisticsShown
    /\ \E i \in DOMAIN values :
          /\ Sum(Rolling(values, i, 21)) = 0
          /\ Sum(Rolling(values, i, 5)) # 0
          /\ stats_data[1].ma_ratio[i] = One

\* C18 as stated: for every non-empty series, a single-point series and a
\* zero-mean series included, the coefficient of variation in the statistics row
\* is a defined number: 100 * std / |mean| when both are defined and the mean is
\* not 0, and 0 otherwise.
C18_CvAlwaysDefined ==
    StatisticsShown =>
        LET row == stats_data[1]
        IN  /\ IsNum(row.cv)
            /\ row.cv = IF IsNum(row.std_flow) /\ IsNum(row.avg_flow) /\ ~IsZero(row.avg_flow)
                        THEN Times100(Div(row.std_flow, Abs(row.avg_flow)))
                        ELSE Zero

\* the row of a single non-zero point: the coefficient of variation is NaN
C18_SinglePointCvIsNaN ==
    StatisticsShown /\ Len(values) = 1 /\ values[1] # 0 /\ IsNaN(stats_data[1].cv)

\* C19: for every non-empty series the percentile of the latest value is
\* 100 * (number of values <= latest, ties included) / n, which lies in
\* [100 / n, 100]; for a series sorted ascending the percentile of values[i] is
\* non-decreasing in i.
C19_PercentileCountsTies ==
    (StatisticsShown \/ FlowMetricsShown) =>
        LET n      == Len(values)
            latest == values[n]
            pct    == stats_data[1].percentile
        IN  /\ pct = Rat(100 * Cardinality({i \in 1..n : values[i] <= latest}), n)
            /\ LeNum(Rat(100, n), pct) /\ LeNum(pct, Rat(100, 1))
            /\ SortedAscending(values) =>
                  /\ pct = Rat(100, 1)
                  /\ \A i, j \in 1..n :
                        i <= j => LeNum(percentile_of(values, values[i]),
                                        percentile_of(values, values[j]))

\* the latest value tied with an earlier one and below a third
C19_LatestTiedBelowMaximum ==
    /\ FlowMetricsShown
    /\ \E i, j \in 1..(Len(values) - 1) :
          values[i] = values[Len(values)] /\ values[j] > values[Len(values)]

-----------------------------------------------------------------------------
(* Properties of the fetch layer *)

\* the responses of a call that were read: status 200 and a JSON body
ReadResponses(resps) ==
    {i \in DOMAIN resps : ~Failed(resps[i]) /\ resps[i].valid}

\* C11: every external fetch (flow-data request and price lookup) that times
\* out, raises or returns a status other than 200 yields an empty mapping to its
\* caller and never propagates an exception, and it leaves the analyzer state
\* as it was (the price cache is written by successful lookups only).
C11_FailedFetchYieldsEmpty ==
    last_call.op # "none" =>
        /\ ~last_call.raised
        /\ last_call.op = "force_api_call" =>
              /\ Failed(last_call.request[1]) => last_call.value = EmptyDict
              /\ price_cache = last_call.cache_before
        /\ last_call.op = "fetch_stock_flow_data" =>
              /\ DOMAIN last_call.value =
                    UNION {DOMAIN last_call.request[i].data : i \in ReadResponses(last_call.request)}
              /\ (\A i \in DOMAIN last_call.request : Failed(last_call.request[i]))
                    => last_call.value = EmptyDict
              /\ price_cache = last_call.cache_before
        /\ (last_call.op = "fetch_stock_price_data_improved" /\ ~last_call.cached
              /\ last_call.request[1].kind # "frame") =>
              /\ last_call.value = EmptyDict
              /\ price_cache = last_call.cache_before

\* a price lookup that timed out while the cache held another ticker's prices
C11_PriceLookupTimedOut ==
    /\ last_call.op = "fetch_stock_price_data_improved"
    /\ ~last_call.cached
    /\ last_call.request[1].kind = "timeout"
    /\ price_cache # EmptyDict

-----------------------------------------------------------------------------
(* Uniqueness of the records of a run *)

\* no two records of the list have the same ticker and the same date
UniquePerTickerDate(recs) ==
    \A i, j \in DOMAIN recs :
        (recs[i].ticker = recs[j].ticker /\ recs[i].date = recs[j].date) => i = j

\* C20 as stated: every series of records a run produces (net-premium records,
\* combined-flow records, and the Call, Put and Net_Premium records of the
\* single-security options view) has at most one record per (ticker, date), for
\* any raw keys and any ticker list, repeated tickers included.
C20_OneRecordPerTickerDate ==
    /\ MultiCombinedDone => UniquePerTickerDate(combined_records)
    /\ MultiOptionsDone => UniquePerTickerDate(net_records)
    /\ SingleCombinedDone =>
          \A n \in DOMAIN charts : UniquePerTickerDate(charts[n].records)
    /\ SingleOptionsDone =>
          \A n \in DOMAIN charts :
              /\ UniquePerTickerDate(charts[n].call)
              /\ UniquePerTickerDate(charts[n].put)
              /\ UniquePerTickerDate(charts[n].net)

\* the single-security options view with two Call records of one ticker on one
\* date, from two raw keys with the same last segment
C20_TwoRawKeysOneTicker ==
    /\ SingleOptionsDone
    /\ \E n \in DOMAIN charts : ~UniquePerTickerDate(charts[n].call)

-----------------------------------------------------------------------------
(* Properties of the price cache *)

PriceFetched == last_call.op = "fetch_stock_price_data_improved"

\* C21: the price cache is write-once-read-many: an entry written for a key
\* (ticker, from-date, to-date) is never overwritten or removed, and every later
\* fetch for that key returns the stored mapping without calling the provider.
C21_CacheWriteOnceReadMany ==
    /\ [][\A k \in DOMAIN price_cache :
              k \in DOMAIN price_cache' /\ price_cache'[k] = price_cache[k]]_vars
    /\ [](PriceFetched /\ last_call.key \in DOMAIN last_call.cache_before =>
              /\ last_call.value = last_call.cache_before[last_call.key]
              /\ ~last_call.called
              /\ price_cache = last_call.cache_before)

\* a fetch for a cached key while the provider holds other prices: the stored
\* mapping is returned
C21_CachedKeyFetchedAgain ==
    /\ PriceFetched
    /\ last_call.key \in DOMAIN last_call.cache_before
    /\ last_call.request[1].kind = "frame"
    /\ last_call.request[1].rows # EmptyDict
    /\ last_call.request[1].rows # last_call.value

\* C30: the price cache never stores an empty or failed result: every cached
\* entry is a non-empty mapping, and a fetch that failed or returned no data
\* leaves the cache unchanged, so the next fetch for the same key calls the
\* provider again.
C30_CacheHoldsOnlyPrices ==
    /\ \A k \in DOMAIN price_cache : price_cache[k] # EmptyDict
    /\ (PriceFetched /\ last_call.called /\ last_call.value = EmptyDict) =>
          /\ price_cache = last_call.cache_before
          /\ last_call.key \notin DOMAIN price_cache
    /\ PriceFetched => (last_call.called <=> last_call.key \notin DOMAIN last_call.cache_before)

\* a lookup that returned an empty frame while the cache held another ticker's
\* prices
C30_EmptyFrameNotCached ==
    /\ PriceFetched
    /\ last_call.called
    /\ last_call.request[1].kind = "frame"
    /\ last_call.request[1].rows = EmptyDict
    /\ price_cache # EmptyDict

-----------------------------------------------------------------------------
(* The two modes of calculate_z_scores *)

\* (x - mean(W)) / sampleStd(W) for a value x and a window W of n >= 2 values that
\* are not all equal: the square of the quotient is
\* (n x - S)^2 (n - 1) / (n (n Q - S^2)), with S the sum and Q the sum of squares
StandardScore(x, W) ==
    LET n == Len(W)
    IN  Root(Sign(n * x - Sum(W)),
             (n * x - Sum(W)) * (n * x - Sum(W)) * (n - 1),
             n * (n * SumSq(W) - Sum(W) * Sum(W)))

\* the sample standard deviation of W is undefined or zero
NoSpread(W) == Len(W) <= 1 \/ ConstantSeries(W)

\* C27: for a series of length n > 1 and window w: if w is given and n >= w,
\* Z[i] = (x[i] - mean(W_i)) / sampleStd(W_i) over the trailing window W_i of the
\* last min(i+1, w) points, with Z[i] = 0 where that std is undefined or zero (so
\* Z[0] = 0); if w is absent or n < w, Z[i] = (x[i] - globalMean) / globalSampleStd
\* for all i, or all zeros when the global std is exactly 0.
C27_RollingOrGlobalMode ==
    (z_scores.returned /\ Len(values) > 1) =>
        \A i \in DOMAIN values :
            LET W == IF window # 0 /\ Len(values) >= window
                     THEN SubSeq(values, IF i > window THEN i - window + 1 ELSE 1, i)
                     ELSE values
            IN  z_scores.series[i] = IF NoSpread(W) THEN Zero ELSE StandardScore(values[i], W)

\* a series exactly as long as its window, with a spread in the full window
C27_SeriesAsLongAsWindow ==
    /\ z_scores.returned
    /\ window # 0 /\ Len(values) = window
    /\ ~ConstantSeries(values)
    /\ z_scores.series[1] = Zero
    /\ z_scores.series[Len(values)] # Zero

-----------------------------------------------------------------------------
(* The two analyzers on one ticker *)

\* the raw series of the run, as both analyzers receive them
RawFlows ==
    [retail |-> api.retail,
     small_call |-> api.small_call, small_put |-> api.small_put,
     large_call |-> api.large_call, large_put |-> api.large_put]

\* the (date, value) pairs of the multi-security combined records
MultiPerDate == {<<combined_records[i].date, combined_records[i].value>> : i \in DOMAIN combined_records}

\* the (date, combined_flow) pairs of a single-security record list
SinglePerDate(recs) == {<<recs[i].date, recs[i].combined_flow>> : i \in DOMAIN recs}

\* a multi-security Combined Flow run of a one-element ticker list
MultiCombinedOfOneTicker ==
    MultiCombinedDone /\ outcome # "error" /\ Len(ticker_list) = 1

\* C28 as stated: for every set of raw series and every single target ticker the
\* per-date combined-flow values of the single-security analyzer
\* (display_combined_flow_chart, display_ma_ratio_combined_chart) equal those of
\* calculate_combined_flow_multi called with the one-element ticker list.
C28_SingleEqualsMultiOnOneTicker ==
    MultiCombinedOfOneTicker =>
        /\ SinglePerDate(display_combined_flow_chart(RawFlows, ticker_list[1])) = MultiPerDate
        /\ SinglePerDate(display_ma_ratio_combined_chart(RawFlows, ticker_list[1])) = MultiPerDate

\* a one-ticker run in which the multi-security analyzer finds no record and the
\* single-security analyzer finds some
C28_OnlySingleFindsRecords ==
    /\ MultiCombinedOfOneTicker
    /\ combined_records = <<>>
    /\ display_combined_flow_chart(RawFlows, ticker_list[1]) # <<>>

-----------------------------------------------------------------------------
(* The combined line of the Z-Score Comparison *)

ZScoreComparisonDone ==
    pc = "done" /\ view = "Single Security" /\ data_source = "Z-Score Comparison"

\* the raw keys of the options data that the comparison matches to the ticker
ComparisonKeys(options, t) ==
    {k \in Range(KeySeq(options.call_data)) \cup Range(KeySeq(options.put_data)) :
        Contains(Upper(k), Upper(t))}

\* call minus put on date d, summed over the keys K, each key once
RECURSIVE NetOverKeys(_, _, _)
NetOverKeys(options, K, d) ==
    IF K = {} THEN 0
    ELSE LET k == CHOOSE x \in K : TRUE
         IN  Get(Lookup(options.call_data, k).items, d)
               - Get(Lookup(options.put_data, k).items, d)
               + NetOverKeys(options, K \ {k}, d)

\* C26 as stated: on every date of the comparison the combined value, from which
\* the combined Z-score is computed, equals the ticker's retail flow on that date
\* plus its options net premium (call minus put, summed over the matching raw
\* keys) on that date, each raw key counted exactly once and a missing side
\* counted as 0.
C26_CombinedIsRetailPlusNetOnce ==
    ZScoreComparisonDone =>
        \A n \in DOMAIN charts : \A i \in DOMAIN charts[n].records :
            LET t == charts[n].ticker
                r == charts[n].records[i]
                d == strftime(r.date)
                options == SingleFetchOptions("combined")
            IN  r.combined_value
                  = Get(ComparisonRetailRecords(api.retail, t), d)
                      + NetOverKeys(options, ComparisonKeys(options, t), d)

\* a comparison whose options value on a date is twice the net premium of the
\* one matching key, which both the call and the put data hold
C26_KeyOfBothSidesCountedTwice ==
    /\ ZScoreComparisonDone
    /\ \E n \in DOMAIN charts : \E i \in DOMAIN charts[n].records :
          LET t == charts[n].ticker
              r == charts[n].records[i]
              d == strftime(r.date)
              options == SingleFetchOptions("combined")
              K == ComparisonKeys(options, t)
          IN  /\ Cardinality(K) = 1
              /\ NetOverKeys(options, K, d) # 0
              /\ r.options_value = 2 * NetOverKeys(options, K, d)
              /\ r.combined_value = r.retail_value + r.options_value

-----------------------------------------------------------------------------
(* Properties of the requests of a fetch *)

\* the positions of the requests in the wire
Requests == {i \in DOMAIN wire : EventKind(wire[i]) = "get"}

\* the retail requests ask for one ticker each, pass after pass of the ticker list
InTickerListOrder ==
    /\ \A i \in Requests :
         EventUrl(wire[i]) = "tickers" =>
            /\ EventTurn(wire[i]) \in DOMAIN last_call.tickers
            /\ EventTickers(wire[i]) = <<last_call.tickers[EventTurn(wire[i])]>>
    /\ \A i, j \in Requests :
         (i < j /\ EventUrl(wire[i]) = "tickers" /\ EventUrl(wire[j]) = "tickers")
            => EventTurn(wire[i]) <= EventTurn(wire[j])

\* an options request carries the whole ticker list
WholeListAsked ==
    \A i \in Requests : EventUrl(wire[i]) = "option" => EventTickers(wire[i]) = last_call.tickers

\* a request that is not the last one is followed by a sleep
DelayAfterRequest ==
    \A i \in Requests : i < Len(wire) => EventKind(wire[i + 1]) = "sleep"

\* C22: the flow-data requests of a fetch go out one at a time in ticker-list
\* order, and a sleep lies between every two consecutive requests
C22_OneAtATimeWithDelay ==
    last_call.op \in {"single.fetch_stock_flow_data", "single.fetch_options_data_fixed",
                      "multi.fetch_stock_flow_data", "multi.fetch_options_data_fixed"}
        => InTickerListOrder /\ WholeListAsked /\ DelayAfterRequest

\* C22: the single-security analyzer has fetched the buy flow of two tickers with
\* two requests and no sleep
C22_TwoRequestsBackToBack ==
    /\ last_call.op = "single.fetch_stock_flow_data"
    /\ last_call.kind = "buy"
    /\ Len(last_call.tickers) = 2
    /\ Len(wire) = 2
    /\ EventKind(wire[1]) = "get" /\ EventKind(wire[2]) = "get"

-----------------------------------------------------------------------------
(* Properties of the rate limiter *)

request_history == GetKey(session_state, "request_history", <<>>)

\* the timestamps of a history that are newer than t - window_minutes
StillCounted(history, t) == SelectSeq(history, LAMBDA req_time : req_time > t - window_minutes)

\* C29: after a call of check_rate_limit request_history holds at most max_requests
\* timestamps, each newer than the time of the call minus the window; an admitted
\* call has appended its own timestamp and nothing else to the timestamps that
\* still count, and a rejected call has only pruned
C29_HistoryBoundedAndFresh ==
    last_run.event = "check_rate_limit" =>
        /\ Len(request_history) <= max_requests
        /\ \A i \in DOMAIN request_history :
             request_history[i] > last_run.at - window_minutes
        /\ ~last_run.stopped =>
             request_history = Append(StillCounted(last_run.before, last_run.at), last_run.at)
        /\ last_run.stopped =>
             /\ request_history = StillCounted(last_run.before, last_run.at)
             /\ Len(request_history) = max_requests

\* C29: a call is admitted one window after a full history was built: the old
\* timestamps are pruned and the history holds the timestamp of the call alone
C29_FullWindowExpired ==
    /\ last_run.event = "check_rate_limit"
    /\ ~last_run.stopped
    /\ Len(last_run.before) = max_requests
    /\ last_run.before[1] = last_run.at - window_minutes
    /\ request_history = <<last_run.at>>

-----------------------------------------------------------------------------
(* Properties of the session *)

\* st.session_state["password_correct"] is True
Authenticated == GetKey(session_state, "password_correct", FALSE)

\* the outcomes of a script run that got past the authentication check and the
\* session monitor
PastTheGate == {"page", "input_error", "rate_limited", "analysis"}

\* C23: whatever the user does in a session, the analysis runs admitted at one
\* clock reading, which lie in one window of window_minutes, number at most
\* max_requests
C23_AtMostMaxRequestsPerWindow == admitted <= max_requests

\* C23: a run is admitted after max_requests runs of the same minute, into a
\* request history that a reset, a logout or a timeout has emptied
C23_AdmittedBeyondTheLimit ==
    /\ admitted = max_requests + 1
    /\ last_run.event = "Start Analysis"
    /\ last_run.outcome = "analysis"
    /\ request_history = <<now>>

\* C24: a script run gets past the authentication check only with password_correct
\* True; password_correct becomes True only in a run whose entered password has the
\* stored hash as its SHA-256 digest; with no stored hash it never becomes True
C24_AuthenticationGate ==
    /\ [](last_run.outcome \in PastTheGate => Authenticated)
    /\ [][(~Authenticated /\ Authenticated') =>
             /\ last_run'.event = "password_entered"
             /\ sha256_hexdigest(last_run'.entered[1]) = stored_hash]_vars
    /\ [](stored_hash = "" => ~Authenticated)

\* C24: an analysis has run in a session that was opened with the right password
\* after a wrong one
C24_AnalysisAfterLogin ==
    /\ last_run.outcome = "analysis"
    /\ Authenticated
    /\ GetKey(session_state, "failed_attempts", 0) >= 1

\* a session whose login lies more than session_seconds back
Expired ==
    /\ Authenticated
    /\ total_seconds(GetKey(session_state, "login_time", now), now) > session_seconds

\* C25: a script run that starts more than session_seconds after the login clears
\* the session state and stops without an analysis, and the run after it shows
\* the login screen
C25_AutoLogout ==
    /\ [][(Expired /\ now' = now) =>
             /\ session_state' = EmptyDict
             /\ last_run'.outcome = "expired"
             /\ admitted' = admitted]_vars
    /\ [][(last_run.outcome = "expired" /\ now' = now) =>
             /\ last_run'.screen = "login"
             /\ ~Authenticated']_vars

\* C25: "Start Analysis" was pressed 61 minutes after the login and the session
\* is gone
C25_ExpiredOnStartAnalysis ==
    /\ last_run.event = "Start Analysis"
    /\ last_run.outcome = "expired"
    /\ last_run.at = 61
    /\ session_state = EmptyDict

====
